---- MODULE Spec2Model ----
(***************************************************************************)
(* Model of the knowledge-graph plugin: the SQLite-backed GraphStore       *)
(* (entities, triples, cooccurrences), and the GraphSearcher that ranks    *)
(* exchanges by link expansion.                                            *)
(*                                                                         *)
(* Encoding of JavaScript values:                                          *)
(*   - a string that the code takes apart (an entity name) is a sequence   *)
(*     of one-character strings; NullName stands for null/undefined;       *)
(*   - any other string (agent id, exchange id, predicate, type) is a TLA+ *)
(*     string; NULL stands for null/undefined/SQL NULL;                    *)
(*   - an optional number or object is a sequence of length 0 (absent,     *)
(*     null) or 1;                                                         *)
(*   - confidences and scores are counted in tenths (0.6 is 6, 1.0 is 10). *)
(***************************************************************************)
EXTENDS Integers, Sequences, FiniteSets, TLC

VARIABLES
    db,     \* the backing store: [entities, triples, cooccurrences, seq]
    now,    \* the clock read by datetime('now') and new Date()
    call,   \* the API call that produced the current state, with its result
    steps,  \* how many steps (API calls and clock ticks) have been taken
    tx,     \* the transaction of a writeExchange call run statement by statement
    observed,   \* what a second connection to the same file last read
    states,     \* the plugin's Map of agent id -> { agentId, store, searcher }
    files,      \* the database files on disk: path -> store content
    logged,     \* what the hooks and gateway methods wrote to api.logger so far
    lastResults,    \* global.__ocGraph.lastResults: agent id -> last search result
    procs   \* the addTriple call each of two processes has in progress

vars == <<steps, now, db, tx, observed, states, files, logged, lastResults, procs, call>>

\* the state of the plugin layer (index.js)
plugin == <<states, files, logged, lastResults>>

-----------------------------------------------------------------------------
(* Bounds of the model *)

\* the length of the behaviours explored: API calls and clock ticks
MaxSteps == 3

-----------------------------------------------------------------------------
(* JavaScript values *)

NULL == "NULL"
NullName == <<"NULL">>
None == <<>>
Some(n) == <<n>>

\* `x || y` on a string: null, undefined and '' are falsy
Falsy(s) == s \in {NULL, ""}
OrElse(s, d) == IF Falsy(s) THEN d ELSE s

\* `x || y` on an optional number: undefined and 0 are falsy
NumOrElse(n, d) == IF n = None \/ n[1] = 0 THEN d ELSE n[1]

DefaultConfidence == 10

Max(a, b) == IF a >= b THEN a ELSE b

-----------------------------------------------------------------------------
(* Strings as sequences of characters *)

Whitespace == {" "}

ToLowerChar(c) ==
    CASE c = "A" -> "a"
      [] c = "B" -> "b"
      [] OTHER   -> c

ToLowerCase(s) == [i \in 1..Len(s) |-> ToLowerChar(s[i])]

RECURSIVE TrimStart(_)
TrimStart(s) ==
    IF s # <<>> /\ Head(s) \in Whitespace THEN TrimStart(Tail(s)) ELSE s

RECURSIVE TrimEnd(_)
TrimEnd(s) ==
    IF s # <<>> /\ s[Len(s)] \in Whitespace
    THEN TrimEnd(SubSeq(s, 1, Len(s) - 1))
    ELSE s

Trim(s) == TrimEnd(TrimStart(s))

\* s.replace(/\s+/g, '_'): every maximal run of whitespace becomes one '_'
RECURSIVE ReplaceWhitespaceRuns(_)
ReplaceWhitespaceRuns(s) ==
    IF s = <<>> THEN <<>>
    ELSE IF Head(s) \in Whitespace
         THEN <<"_">> \o ReplaceWhitespaceRuns(TrimStart(Tail(s)))
         ELSE <<Head(s)>> \o ReplaceWhitespaceRuns(Tail(s))

\* faulty variant: replace(/\s/g, '_'), every whitespace character becomes one '_'
normalizeEntityIdEachSpace(name) ==
    LET t == Trim(ToLowerCase(name))
    IN [i \in 1..Len(t) |-> IF t[i] \in Whitespace THEN "_" ELSE t[i]]

normalizeEntityId(name) == ReplaceWhitespaceRuns(Trim(ToLowerCase(name)))

\* UTF-16 code units, the order of Array.prototype.sort() on strings
CharCode(c) ==
    CASE c = " " -> 32
      [] c = "A" -> 65
      [] c = "B" -> 66
      [] c = "_" -> 95
      [] c = "a" -> 97
      [] c = "b" -> 98

RECURSIVE StrLess(_, _)
StrLess(s, t) ==
    IF t = <<>> THEN FALSE
    ELSE IF s = <<>> THEN TRUE
    ELSE IF Head(s) = Head(t) THEN StrLess(Tail(s), Tail(t))
    ELSE CharCode(Head(s)) < CharCode(Head(t))

\* [a, b].sort()
SortPair(a, b) == IF StrLess(b, a) THEN <<b, a>> ELSE <<a, b>>

-----------------------------------------------------------------------------
(* The store.  A table is the set of its rows.                             *)

EmptyDb == [entities |-> {}, triples |-> {}, cooccurrences |-> {}, seq |-> 0]

\* The outcome of a call: the store it leaves, what it returns, whether it threw
Returned(d, v) == [db |-> d, ret |-> v, threw |-> FALSE]
Thrown(d) == [db |-> d, ret |-> NULL, threw |-> TRUE]

\* faulty variant: ON CONFLICT(id) DO UPDATE refreshes last_seen but does not count the mention
UpsertEntityRowNoCount(d, id, name, type, agentId, t) ==
    IF \E e \in d.entities : e.id = id
    THEN [d EXCEPT !.entities =
            { IF e.id = id THEN [e EXCEPT !.last_seen = t] ELSE e : e \in d.entities }]
    ELSE [d EXCEPT !.entities = d.entities \cup
            {[id |-> id, canonical_name |-> name, entity_type |-> type,
              first_seen |-> t, last_seen |-> t, mention_count |-> 1,
              aliases |-> <<>>, agent_id |-> agentId]}]

\* _upsertEntity: INSERT ... ON CONFLICT(id) DO UPDATE
UpsertEntityRow(d, id, name, type, agentId, t) ==
    IF \E e \in d.entities : e.id = id
    THEN [d EXCEPT !.entities =
            { IF e.id = id
              THEN [e EXCEPT !.last_seen = t, !.mention_count = e.mention_count + 1]
              ELSE e : e \in d.entities }]
    ELSE [d EXCEPT !.entities = d.entities \cup
            {[id |-> id, canonical_name |-> name, entity_type |-> type,
              first_seen |-> t, last_seen |-> t, mention_count |-> 1,
              aliases |-> <<>>, agent_id |-> agentId]}]

upsertEntity(d, name, type, agentId, t) ==
    IF name = NullName THEN Thrown(d)
    ELSE LET id == normalizeEntityId(name)
         IN Returned(UpsertEntityRow(d, id, name, OrElse(type, "CONCEPT"),
                                     OrElse(agentId, "main"), t), id)

getEntity(d, id) == { e \in d.entities : e.id = id }

\* faulty variant: the existence check runs after the upsert
resolveEntityAfterUpsert(d, name, type, agentId, t) ==
    IF name = NullName THEN Thrown(d)
    ELSE LET id == normalizeEntityId(name)
             r == upsertEntity(d, name, type, agentId, t)
         IN Returned(r.db, [id |-> id, isNew |-> (getEntity(r.db, id) = {})])

resolveEntity(d, name, type, agentId, t) ==
    IF name = NullName THEN Thrown(d)
    ELSE LET id == normalizeEntityId(name)
             existing == getEntity(d, id)
             r == upsertEntity(d, name, type, agentId, t)
         IN Returned(r.db, [id |-> id, isNew |-> (existing = {})])

\* faulty variant: the lookup binds subject and object in the wrong order
FindTripleSwapped(d, subjectId, predicate, objectId, aid) ==
    { r \in d.triples : /\ r.subject = objectId
                        /\ predicate # NULL /\ r.predicate = predicate
                        /\ r.object = subjectId
                        /\ r.agent_id = aid }

\* _findTriple: SELECT id ... WHERE subject = ? AND predicate = ? AND object = ?
\* AND agent_id = ? LIMIT 1 (a NULL parameter matches no row)
FindTriple(d, subjectId, predicate, objectId, aid) ==
    { r \in d.triples : /\ r.subject = subjectId
                        /\ predicate # NULL /\ r.predicate = predicate
                        /\ r.object = objectId
                        /\ r.agent_id = aid }

MinId(rows) == CHOOSE i \in {r.id : r \in rows} : \A r \in rows : i <= r.id

\* _updateTripleConfidence
UpdateTripleConfidence(d, c, id, t) ==
    [d EXCEPT !.triples =
        { IF r.id = id
          THEN [r EXCEPT !.confidence = Max(r.confidence, c), !.updated_at = t]
          ELSE r : r \in d.triples }]

\* _insertTriple; id is INTEGER PRIMARY KEY AUTOINCREMENT
InsertTriple(d, subjectId, predicate, objectId, c, src, date, aid, pending, t) ==
    [d EXCEPT !.seq = d.seq + 1,
              !.triples = d.triples \cup
                {[id |-> d.seq + 1, subject |-> subjectId, predicate |-> predicate,
                  object |-> objectId, confidence |-> c,
                  source_exchange_id |-> src, source_date |-> date,
                  created_at |-> t, updated_at |-> t, agent_id |-> aid,
                  pending_resolution |-> pending]}]

Today(t) == t

\* faulty variant: a hit on an existing triple also counts a mention of its subject
addTripleCountsMention(d, tr, t) ==
    IF tr.subject = NullName \/ tr.object = NullName THEN Thrown(d)
    ELSE LET subjectId == normalizeEntityId(tr.subject)
             objectId == normalizeEntityId(tr.object)
             aid == OrElse(tr.agentId, "main")
             existing == FindTriple(d, subjectId, tr.predicate, objectId, aid)
             c == NumOrElse(tr.confidence, DefaultConfidence)
         IN IF existing # {}
            THEN Returned(UpsertEntityRow(
                              UpdateTripleConfidence(d, c, MinId(existing), t),
                              subjectId, tr.subject, "CONCEPT", aid, t),
                          MinId(existing))
            ELSE IF tr.predicate = NULL
            THEN Thrown(d)
            ELSE Returned(InsertTriple(d, subjectId, tr.predicate, objectId, c,
                                       OrElse(tr.sourceExchangeId, NULL),
                                       IF tr.sourceDate = None THEN Today(t)
                                       ELSE tr.sourceDate[1],
                                       aid,
                                       IF tr.pendingResolution THEN 1 ELSE 0, t),
                          d.seq + 1)

\* faulty variant: a hit on an existing triple attributes it to the new exchange
addTripleReattributes(d, tr, t) ==
    IF tr.subject = NullName \/ tr.object = NullName THEN Thrown(d)
    ELSE LET subjectId == normalizeEntityId(tr.subject)
             objectId == normalizeEntityId(tr.object)
             aid == OrElse(tr.agentId, "main")
             existing == FindTriple(d, subjectId, tr.predicate, objectId, aid)
             c == NumOrElse(tr.confidence, DefaultConfidence)
             hit == UpdateTripleConfidence(d, c, MinId(existing), t)
         IN IF existing # {}
            THEN Returned([hit EXCEPT !.triples =
                             { IF r.id = MinId(existing)
                               THEN [r EXCEPT !.source_exchange_id =
                                                 OrElse(tr.sourceExchangeId, NULL)]
                               ELSE r : r \in hit.triples }],
                          MinId(existing))
            ELSE IF tr.predicate = NULL
            THEN Thrown(d)
            ELSE Returned(InsertTriple(d, subjectId, tr.predicate, objectId, c,
                                       OrElse(tr.sourceExchangeId, NULL),
                                       IF tr.sourceDate = None THEN Today(t)
                                       ELSE tr.sourceDate[1],
                                       aid,
                                       IF tr.pendingResolution THEN 1 ELSE 0, t),
                          d.seq + 1)

addTriple(d, tr, t) ==
    IF tr.subject = NullName \/ tr.object = NullName THEN Thrown(d)
    ELSE LET subjectId == normalizeEntityId(tr.subject)
             objectId == normalizeEntityId(tr.object)
             aid == OrElse(tr.agentId, "main")
             existing == FindTriple(d, subjectId, tr.predicate, objectId, aid)
             c == NumOrElse(tr.confidence, DefaultConfidence)
         IN IF existing # {}
            THEN Returned(UpdateTripleConfidence(d, c, MinId(existing), t),
                          MinId(existing))
            ELSE IF tr.predicate = NULL
            THEN Thrown(d)   \* predicate TEXT NOT NULL
            ELSE Returned(InsertTriple(d, subjectId, tr.predicate, objectId, c,
                                       OrElse(tr.sourceExchangeId, NULL),
                                       IF tr.sourceDate = None THEN Today(t)
                                       ELSE tr.sourceDate[1],
                                       aid,
                                       IF tr.pendingResolution THEN 1 ELSE 0, t),
                          d.seq + 1)

\* faulty variant: INSERT OR IGNORE, a pair seen again keeps its count
UpsertCooccurrenceOnce(d, a, b, t) ==
    IF \E c \in d.cooccurrences : c.entity_a = a /\ c.entity_b = b
    THEN d
    ELSE [d EXCEPT !.cooccurrences = d.cooccurrences \cup
            {[entity_a |-> a, entity_b |-> b, count |-> 1, last_seen |-> t]}]

\* _upsertCooccurrence
UpsertCooccurrence(d, a, b, t) ==
    IF \E c \in d.cooccurrences : c.entity_a = a /\ c.entity_b = b
    THEN [d EXCEPT !.cooccurrences =
            { IF c.entity_a = a /\ c.entity_b = b
              THEN [c EXCEPT !.count = c.count + 1, !.last_seen = t]
              ELSE c : c \in d.cooccurrences }]
    ELSE [d EXCEPT !.cooccurrences = d.cooccurrences \cup
            {[entity_a |-> a, entity_b |-> b, count |-> 1, last_seen |-> t]}]

\* The body of the transaction of writeExchange, one loop after the other.
\* An outcome that threw stays thrown: the remaining statements do not run.
RECURSIVE RegisterEntities(_, _, _, _)
RegisterEntities(o, ents, aid, t) ==
    IF o.threw \/ ents = <<>> THEN o
    ELSE RegisterEntities(
            LET r == upsertEntity(o.db, Head(ents).name, Head(ents).type, aid, t)
            IN [r EXCEPT !.ret = o.ret],
            Tail(ents), aid, t)

\* faulty variant: an id that is in the list already is not pushed again
PushOnce(tripleIds, id) ==
    IF \E i \in 1..Len(tripleIds) : tripleIds[i] = id THEN tripleIds
    ELSE Append(tripleIds, id)

\* tripleIds.push(id)
Push(tripleIds, id) == Append(tripleIds, id)

RECURSIVE WriteTriples(_, _, _, _, _, _)
WriteTriples(o, trs, aid, src, date, t) ==
    IF o.threw \/ trs = <<>> THEN o
    ELSE WriteTriples(
            LET r == addTriple(o.db,
                               [subject |-> Head(trs).subject,
                                predicate |-> Head(trs).predicate,
                                object |-> Head(trs).object,
                                confidence |-> Head(trs).confidence,
                                sourceExchangeId |-> src,
                                sourceDate |-> Some(date),
                                agentId |-> aid,
                                pendingResolution |-> FALSE], t)
            IN IF r.threw THEN r ELSE [r EXCEPT !.ret = Push(o.ret, r.ret)],
            Tail(trs), aid, src, date, t)

RECURSIVE UpdateCooccurrences(_, _, _)
UpdateCooccurrences(o, pairs, t) ==
    IF o.threw \/ pairs = <<>> THEN o
    ELSE UpdateCooccurrences(
            LET a == Head(pairs)[1]
                b == Head(pairs)[2]
            IN IF a = NullName \/ b = NullName THEN Thrown(o.db)
               ELSE LET sorted == SortPair(normalizeEntityId(a), normalizeEntityId(b))
                    IN [o EXCEPT !.db = UpsertCooccurrence(o.db, sorted[1], sorted[2], t)],
            Tail(pairs), t)

ExchangeBody(d, in, t) ==
    LET aid == OrElse(in.agentId, "main")
        date == IF in.sourceDate = None THEN Today(t) ELSE in.sourceDate[1]
        o1 == RegisterEntities(Returned(d, <<>>), in.entities, aid, t)
        o2 == WriteTriples(o1, in.triples, aid, in.sourceExchangeId, date, t)
    IN UpdateCooccurrences(o2, in.cooccurrences, t)

\* faulty variant: the batch runs outside a transaction, nothing is rolled back
TransactionNoRollback(d, body) == body

\* this.db.transaction(fn)(): BEGIN, fn, then COMMIT, or ROLLBACK and rethrow
Transaction(d, body) == IF body.threw THEN Thrown(d) ELSE body

writeExchange(d, in, t) == Transaction(d, ExchangeBody(d, in, t))

\* faulty variant: the delete also takes the triples that carry no exchange id
deleteTriplesOrUnattributed(d, exchangeId) ==
    LET gone == { r \in d.triples : \/ r.source_exchange_id = exchangeId
                                    \/ r.source_exchange_id = NULL }
    IN Returned([d EXCEPT !.triples = d.triples \ gone], Cardinality(gone))

\* _deleteTriplesByExchange: DELETE FROM triples WHERE source_exchange_id = ?
deleteTriplesByExchange(d, exchangeId) ==
    LET gone == { r \in d.triples : /\ exchangeId # NULL
                                    /\ r.source_exchange_id = exchangeId }
    IN Returned([d EXCEPT !.triples = d.triples \ gone], Cardinality(gone))

-----------------------------------------------------------------------------
(* Inputs of the calls *)

Alice == <<"A">>
alice_ == <<" ", "a">>
Bob == <<"b">>

Triple(s, o, c, src, agent) ==
    [subject |-> s, predicate |-> "p", object |-> o, confidence |-> c,
     sourceExchangeId |-> src, sourceDate |-> None, agentId |-> agent,
     pendingResolution |-> FALSE]

TripleInputs ==
    { Triple(Alice, Bob, c, "E1", NULL) : c \in {Some(0), Some(6)} }
    \cup { Triple(alice_, Bob, Some(9), "E2", NULL),
           Triple(Bob, Alice, Some(6), "E2", "x"),
           Triple(Alice, Alice, None, NULL, NULL) }

EntityInputs ==
    { [name |-> Alice, type |-> "PERSON", agentId |-> NULL],
      [name |-> Alice, type |-> "PERSON", agentId |-> "x"] }

ResolveInputs ==
    { [name |-> alice_, type |-> NULL, agentId |-> NULL],
      [name |-> Alice, type |-> "PERSON", agentId |-> "x"] }

Ent(n) == [name |-> n, type |-> "PERSON"]
BatchTriple(s, o, c) == [subject |-> s, predicate |-> "p", object |-> o, confidence |-> c]

Exchange(ents, trs, pairs, agent, src) ==
    [entities |-> ents, triples |-> trs, cooccurrences |-> pairs,
     agentId |-> agent, sourceExchangeId |-> src, sourceDate |-> None]

ExchangeInputs ==
    { Exchange(<<Ent(Alice), Ent(Bob)>>, <<BatchTriple(Alice, Bob, Some(6))>>,
               <<<<Bob, Alice>>>>, NULL, "E1"),
      Exchange(<<Ent(Bob)>>, <<BatchTriple(Bob, Bob, Some(6))>>,
               <<<<Alice, Bob>>>>, NULL, "E2"),
      Exchange(<<Ent(Alice), Ent(alice_)>>,
               <<BatchTriple(Alice, Bob, Some(6)), BatchTriple(Bob, Alice, Some(6)),
                 BatchTriple(alice_, Bob, Some(9))>>,
               <<<<Alice, alice_>>>>, NULL, "E1"),
      Exchange(<<Ent(Alice), Ent(NullName)>>, <<BatchTriple(Alice, Bob, Some(6))>>,
               <<<<Alice, Bob>>>>, NULL, "E2"),
      Exchange(<<Ent(Bob)>>,
               <<BatchTriple(Bob, Alice, Some(6)), BatchTriple(NullName, Bob, None)>>,
               <<>>, NULL, "E2"),
      Exchange(<<Ent(Alice), Ent(Bob)>>, <<BatchTriple(Alice, Bob, Some(9))>>,
               <<<<Alice, Bob>>, <<NullName, Bob>>>>, NULL, "E2"),
      Exchange(<<Ent(Alice), Ent(Bob)>>, <<BatchTriple(Alice, Bob, Some(8))>>,
               <<>>, NULL, "E1") }

ExchangeIds == {"E1", "E2", NULL}

\* the names and limits the read queries are asked with
EntityNames == {Alice, alice_, Bob}
TripleLimits == {None, Some(1)}

-----------------------------------------------------------------------------
(* Read queries of the store *)

Take(s, n) == IF Len(s) <= n THEN s ELSE SubSeq(s, 1, n)

\* ORDER BY updated_at DESC; rows of one timestamp come in rowid order
RECURSIVE OrderByUpdatedDesc(_)
OrderByUpdatedDesc(rows) ==
    IF rows = {} THEN <<>>
    ELSE LET first == CHOOSE r \in rows : \A o \in rows :
                          \/ r.updated_at > o.updated_at
                          \/ r.updated_at = o.updated_at /\ r.id <= o.id
         IN <<first>> \o OrderByUpdatedDesc(rows \ {first})

\* ORDER BY count DESC; rows of one count come in primary-key order
CoocBefore(c, o) ==
    \/ c.count > o.count
    \/ /\ c.count = o.count
       /\ \/ StrLess(c.entity_a, o.entity_a)
          \/ c.entity_a = o.entity_a /\ ~StrLess(o.entity_b, c.entity_b)

RECURSIVE OrderByCountDesc(_)
OrderByCountDesc(rows) ==
    IF rows = {} THEN <<>>
    ELSE LET first == CHOOSE c \in rows : \A o \in rows : CoocBefore(c, o)
         IN <<first>> \o OrderByCountDesc(rows \ {first})

\* faulty variant: the rows of the two scans are concatenated as they are
KeepAll(rows, seen) == rows

\* result.push(t) unless seen.has(t.id)
RECURSIVE DedupById(_, _)
DedupById(rows, seen) ==
    IF rows = <<>> THEN <<>>
    ELSE IF Head(rows).id \in seen THEN DedupById(Tail(rows), seen)
    ELSE <<Head(rows)>> \o DedupById(Tail(rows), seen \cup {Head(rows).id})

DefaultTriplesLimit == 50
DefaultCooccurrencesLimit == 20

getTriplesFor(d, entityName, agentId, limit) ==
    LET id == normalizeEntityId(entityName)
        aid == OrElse(agentId, "main")
        lim == NumOrElse(limit, DefaultTriplesLimit)
        asSubject == Take(OrderByUpdatedDesc(
                        { r \in d.triples : r.subject = id /\ r.agent_id = aid }), lim)
        asObject == Take(OrderByUpdatedDesc(
                        { r \in d.triples : r.object = id /\ r.agent_id = aid }), lim)
    IN DedupById(asSubject \o asObject, {})

\* faulty variant: WHERE entity_a = ?, the rows that hold the id second are missed
getCooccurrencesFirstSide(d, entityName, limit) ==
    LET id == normalizeEntityId(entityName)
    IN Take(OrderByCountDesc({ c \in d.cooccurrences : c.entity_a = id }),
            NumOrElse(limit, DefaultCooccurrencesLimit))

getCooccurrences(d, entityName, limit) ==
    LET id == normalizeEntityId(entityName)
    IN Take(OrderByCountDesc(
               { c \in d.cooccurrences : c.entity_a = id \/ c.entity_b = id }),
            NumOrElse(limit, DefaultCooccurrencesLimit))

-----------------------------------------------------------------------------
(* GraphSearcher *)

DefaultMaxResults == 20
DefaultMinSharedEntities == 1
DefaultCooccurrenceBoost == 1
SearchTriplesLimit == 100
SearchCooccurrencesLimit == 5
SearchCoocTriplesLimit == 20

\* constructor(store, config)
Searcher(config) ==
    [maxResults |-> NumOrElse(config.maxResults, DefaultMaxResults),
     minSharedEntities |-> NumOrElse(config.minSharedEntities, DefaultMinSharedEntities),
     cooccurrenceBoost |-> NumOrElse(config.cooccurrenceBoost, DefaultCooccurrenceBoost)]

_getTriplesByNormalizedId(d, normalizedId, agentId, limit) ==
    LET aid == OrElse(agentId, "main")
        lim == NumOrElse(limit, DefaultTriplesLimit)
    IN Take(OrderByUpdatedDesc(
               { r \in d.triples : /\ (r.subject = normalizedId \/ r.object = normalizedId)
                                   /\ r.agent_id = aid }), lim)

\* the gazetteer matches whose lower-cased name is not in the list yet are appended
RECURSIVE MergeGazetteer(_, _)
MergeGazetteer(queryEntities, gazetteered) ==
    IF gazetteered = <<>> THEN queryEntities
    ELSE LET g == Head(gazetteered)
             entityNames == { ToLowerCase(queryEntities[i].name) :
                                i \in 1..Len(queryEntities) }
         IN MergeGazetteer(
               IF ToLowerCase(g.name) \in entityNames THEN queryEntities
               ELSE Append(queryEntities, g),
               Tail(gazetteered))

\* exchangeScores is a Map: a sequence of entries in insertion order
NewEntry(exchangeId) ==
    [id |-> exchangeId, score |-> 0, sharedEntities |-> {},
     maxConfidence |-> 0, newestDate |-> None]

HasEntry(scores, exchangeId) == \E i \in 1..Len(scores) : scores[i].id = exchangeId

Ensure(scores, exchangeId) ==
    IF HasEntry(scores, exchangeId) THEN scores ELSE Append(scores, NewEntry(exchangeId))

Newest(entry, triple) ==
    IF entry.newestDate = None \/ triple.source_date > entry.newestDate[1]
    THEN Some(triple.source_date)
    ELSE entry.newestDate

\* faulty variant: every direct triple counts 1.0, whatever its confidence
DirectHitUnweighted(entry, entity, triple) ==
    [entry EXCEPT !.sharedEntities = @ \cup {ToLowerCase(entity.name)},
                  !.score = @ + DefaultConfidence,
                  !.maxConfidence = Max(@, triple.confidence),
                  !.newestDate = Newest(entry, triple)]

\* a triple of the query entity itself
DirectHit(entry, entity, triple) ==
    LET c == IF triple.confidence = 0 THEN DefaultConfidence ELSE triple.confidence
    IN [entry EXCEPT !.sharedEntities = @ \cup {ToLowerCase(entity.name)},
                     !.score = @ + c,
                     !.maxConfidence = Max(@, c),
                     !.newestDate = Newest(entry, triple)]

\* faulty variant: a triple reached through a co-occurrence counts as a shared entity
CoocHitShared(entry, boost, cooc, triple) ==
    [entry EXCEPT !.sharedEntities = @ \cup {triple.subject},
                  !.score = @ + boost * (IF cooc.count = 0 THEN 1 ELSE cooc.count),
                  !.newestDate = Newest(entry, triple)]

\* a triple of an entity that co-occurs with the query entity
CoocHit(entry, boost, cooc, triple) ==
    [entry EXCEPT !.score = @ + boost * (IF cooc.count = 0 THEN 1 ELSE cooc.count),
                  !.newestDate = Newest(entry, triple)]

RECURSIVE ScoreDirect(_, _, _)
ScoreDirect(scores, entity, triples) ==
    IF triples = <<>> THEN scores
    ELSE LET triple == Head(triples)
             with == Ensure(scores, triple.source_exchange_id)
         IN ScoreDirect(
               IF Falsy(triple.source_exchange_id) THEN scores
               ELSE [i \in 1..Len(with) |->
                       IF with[i].id = triple.source_exchange_id
                       THEN DirectHit(with[i], entity, triple) ELSE with[i]],
               entity, Tail(triples))

RECURSIVE ScoreCoocTriples(_, _, _, _)
ScoreCoocTriples(scores, boost, cooc, triples) ==
    IF triples = <<>> THEN scores
    ELSE LET triple == Head(triples)
             with == Ensure(scores, triple.source_exchange_id)
         IN ScoreCoocTriples(
               IF Falsy(triple.source_exchange_id) THEN scores
               ELSE [i \in 1..Len(with) |->
                       IF with[i].id = triple.source_exchange_id
                       THEN CoocHit(with[i], boost, cooc, triple) ELSE with[i]],
               boost, cooc, Tail(triples))

RECURSIVE ScoreCooccurrences(_, _, _, _, _, _)
ScoreCooccurrences(scores, d, self, entity, aid, coocs) ==
    IF coocs = <<>> THEN scores
    ELSE LET cooc == Head(coocs)
             normalizedName == normalizeEntityId(entity.name)
             coocEntityId == IF cooc.entity_a = normalizedName
                             THEN cooc.entity_b ELSE cooc.entity_a
             coocTriples == _getTriplesByNormalizedId(d, coocEntityId, aid,
                                                      Some(SearchCoocTriplesLimit))
         IN ScoreCooccurrences(
               ScoreCoocTriples(scores, self.cooccurrenceBoost, cooc, coocTriples),
               d, self, entity, aid, Tail(coocs))

RECURSIVE ScoreEntities(_, _, _, _, _)
ScoreEntities(scores, d, self, aid, queryEntities) ==
    IF queryEntities = <<>> THEN scores
    ELSE LET entity == Head(queryEntities)
             direct == ScoreDirect(scores, entity,
                          getTriplesFor(d, entity.name, aid, Some(SearchTriplesLimit)))
             expanded == ScoreCooccurrences(direct, d, self, entity, aid,
                          getCooccurrences(d, entity.name, Some(SearchCooccurrencesLimit)))
         IN ScoreEntities(expanded, d, self, aid, Tail(queryEntities))

\* 4. filter by minimum shared entities
RECURSIVE FilterShared(_, _)
FilterShared(scores, self) ==
    IF scores = <<>> THEN <<>>
    ELSE LET entry == Head(scores)
         IN (IF Cardinality(entry.sharedEntities) >= self.minSharedEntities
             THEN <<[id |-> entry.id, score |-> entry.score,
                     sharedEntityCount |-> Cardinality(entry.sharedEntities),
                     sharedEntities |-> entry.sharedEntities,
                     maxConfidence |-> entry.maxConfidence,
                     date |-> entry.newestDate]>>
             ELSE <<>>) \o FilterShared(Tail(scores), self)

\* faulty variant: the results stay in the order the exchanges were first met
Unsorted(results) == results

\* 5. results.sort((a, b) => b.score - a.score), a stable sort
RECURSIVE InsertByScore(_, _)
InsertByScore(sorted, x) ==
    IF sorted = <<>> THEN <<x>>
    ELSE IF Head(sorted).score >= x.score
         THEN <<Head(sorted)>> \o InsertByScore(Tail(sorted), x)
         ELSE <<x>> \o sorted

RECURSIVE SortByScoreDesc(_)
SortByScoreDesc(results) ==
    IF results = <<>> THEN <<>>
    ELSE InsertByScore(SortByScoreDesc(SubSeq(results, 1, Len(results) - 1)),
                       results[Len(results)])

\* search(query, agentId, options); extracted and gazetteered are what
\* extractor.extractEntities and extractor.matchGazetteer return for the query
search(d, self, extracted, gazetteered, agentId, optLimit) ==
    LET aid == OrElse(agentId, "main")
        limit == NumOrElse(optLimit, self.maxResults)
        queryEntities == MergeGazetteer(extracted, gazetteered)
    IN IF Len(queryEntities) = 0
       THEN [exchanges |-> <<>>, entities |-> <<>>]
       ELSE [exchanges |->
               Take(SortByScoreDesc(FilterShared(
                       ScoreEntities(<<>>, d, self, aid, queryEntities), self)), limit),
             entities |-> queryEntities]

\* Queries: what the extractor finds in the query text, and the configuration
Configs ==
    { [maxResults |-> None, minSharedEntities |-> m, cooccurrenceBoost |-> None]
        : m \in {None, Some(0), Some(2)} }
    \cup { [maxResults |-> None, minSharedEntities |-> None, cooccurrenceBoost |-> Some(2)] }

DefaultConfig == [maxResults |-> None, minSharedEntities |-> None, cooccurrenceBoost |-> None]

Query(e, g, a) == [extracted |-> e, gazetteered |-> g, agentId |-> a, limit |-> None]

Queries ==
    { Query(<<>>, <<>>, NULL),
      Query(<<Ent(Alice)>>, <<>>, NULL),
      Query(<<Ent(Bob)>>, <<>>, NULL),
      Query(<<Ent(Alice), Ent(Bob)>>, <<Ent(<<"a">>)>>, NULL),
      Query(<<Ent(alice_)>>, <<Ent(<<"a">>)>>, NULL),
      Query(<<Ent(Bob)>>, <<Ent(Alice)>>, "x") }

Run(d, config, q) ==
    search(d, Searcher(config), q.extracted, q.gazetteered, q.agentId, q.limit)

-----------------------------------------------------------------------------
(* The API calls as actions *)

\* a Map or a directory with no entry
EmptyMap == [k \in {} |-> NULL]

\* map.set(k, v)
Put(map, k, v) == [x \in DOMAIN map \cup {k} |-> IF x = k THEN v ELSE map[x]]

NoCall == [op |-> "new", args |-> NULL, ret |-> NULL, threw |-> FALSE]

NoTx == [status |-> "none", in |-> NULL, pos |-> 0, before |-> EmptyDb,
         o |-> Returned(EmptyDb, <<>>), n |-> 0]

NotRead == [n |-> 0, entities |-> {}, triples |-> {}, cooccurrences |-> {}]

\* the processes that share the database file, none of them in a call
Processes == {1, 2}
Idle == [pc |-> "idle", args |-> NULL, existing |-> None, n |-> 0]
NoProcs == [p \in Processes |-> Idle]

Init ==
    /\ db = EmptyDb
    /\ now = 0
    /\ call = NoCall
    /\ steps = 0
    /\ tx = NoTx
    /\ observed = NotRead
    /\ states = EmptyMap
    /\ files = EmptyMap
    /\ logged = <<>>
    /\ lastResults = EmptyMap
    /\ procs = NoProcs

Finish(op, args, o) ==
    /\ steps < MaxSteps
    /\ db' = o.db
    /\ call' = [op |-> op, args |-> args, ret |-> o.ret, threw |-> o.threw]
    /\ steps' = steps + 1
    /\ UNCHANGED <<now, tx, observed, states, files, logged, lastResults, procs>>

UpsertEntity ==
    \E e \in EntityInputs :
        Finish("upsertEntity", e, upsertEntity(db, e.name, e.type, e.agentId, now))

ResolveEntity ==
    \E e \in ResolveInputs :
        Finish("resolveEntity", e, resolveEntity(db, e.name, e.type, e.agentId, now))

AddTriple ==
    \E tr \in TripleInputs : Finish("addTriple", tr, addTriple(db, tr, now))

WriteExchange ==
    \E in \in ExchangeInputs : Finish("writeExchange", in, writeExchange(db, in, now))

DeleteTriplesByExchange ==
    \E e \in ExchangeIds :
        Finish("deleteTriplesByExchange", e, deleteTriplesByExchange(db, e))

\* time passes between two calls
Tick ==
    /\ steps < MaxSteps
    /\ now' = now + 1
    /\ steps' = steps + 1
    /\ UNCHANGED <<db, call, tx, observed, states, files, logged, lastResults, procs>>

Next ==
    \/ UpsertEntity
    \/ ResolveEntity
    \/ AddTriple
    \/ WriteExchange
    \/ DeleteTriplesByExchange
    \/ Tick

Spec == Init /\ [][Next]_vars

-----------------------------------------------------------------------------
(* writeExchange statement by statement, next to a second connection that  *)
(* reads the same database file (journal_mode = WAL).  The statements of   *)
(* the transaction write to the writer's own view, tx.o.db; db is the      *)
(* committed content of the file.                                          *)

MaxTransactions == 2
MaxReads == 2

\* the statements of the transaction body, in the order the loops run them
Statements(in) == Len(in.entities) + Len(in.triples) + Len(in.cooccurrences)

\* the k-th statement (k >= 1) of the body, run on the outcome so far
RunStatement(o, in, k, t) ==
    LET aid == OrElse(in.agentId, "main")
        date == IF in.sourceDate = None THEN Today(t) ELSE in.sourceDate[1]
        ne == Len(in.entities)
        nt == Len(in.triples)
    IN IF k <= ne
       THEN RegisterEntities(o, <<in.entities[k]>>, aid, t)
       ELSE IF k <= ne + nt
       THEN WriteTriples(o, <<in.triples[k - ne]>>, aid, in.sourceExchangeId, date, t)
       ELSE UpdateCooccurrences(o, <<in.cooccurrences[k - ne - nt]>>, t)

\* faulty variant: the statements of the batch are autocommitted one by one
VisibleUncommitted(committed, t) ==
    IF t.status = "active" THEN t.o.db ELSE committed

\* what a statement of another connection reads: the last committed snapshot
Visible(committed, t) == committed

\* BEGIN
Begin ==
    \E in \in ExchangeInputs :
        /\ tx.status # "active"
        /\ tx.n < MaxTransactions
        /\ tx' = [status |-> "active", in |-> in, pos |-> 0, before |-> db,
                  o |-> Returned(db, <<>>), n |-> tx.n + 1]
        /\ UNCHANGED <<db, now, call, steps, observed, states, files, logged, lastResults, procs>>

\* the next statement of the body
Statement ==
    /\ tx.status = "active" /\ ~tx.o.threw
    /\ tx.pos < Statements(tx.in)
    /\ tx' = [tx EXCEPT !.pos = tx.pos + 1,
                        !.o = RunStatement(tx.o, tx.in, tx.pos + 1, now)]
    /\ UNCHANGED <<db, now, call, steps, observed, states, files, logged, lastResults, procs>>

\* COMMIT, and writeExchange returns the triple ids
Commit ==
    /\ tx.status = "active" /\ ~tx.o.threw
    /\ tx.pos = Statements(tx.in)
    /\ db' = tx.o.db
    /\ tx' = [tx EXCEPT !.status = "committed"]
    /\ call' = [op |-> "writeExchange", args |-> tx.in, ret |-> tx.o.ret, threw |-> FALSE]
    /\ UNCHANGED <<now, steps, observed, states, files, logged, lastResults, procs>>

\* ROLLBACK, and writeExchange rethrows
Rollback ==
    /\ tx.status = "active" /\ tx.o.threw
    /\ tx' = [tx EXCEPT !.status = "rolledback"]
    /\ call' = [op |-> "writeExchange", args |-> tx.in, ret |-> NULL, threw |-> TRUE]
    /\ UNCHANGED <<db, now, steps, observed, states, files, logged, lastResults, procs>>

\* a statement of the second connection reads the three tables
Read ==
    /\ observed.n < MaxReads
    /\ observed' = [n |-> observed.n + 1,
                entities |-> Visible(db, tx).entities,
                triples |-> Visible(db, tx).triples,
                cooccurrences |-> Visible(db, tx).cooccurrences]
    /\ UNCHANGED <<db, now, call, steps, tx, states, files, logged, lastResults, procs>>

NextConcurrent ==
    \/ Begin
    \/ Statement
    \/ Commit
    \/ Rollback
    \/ Read

SpecConcurrent == Init /\ [][NextConcurrent]_vars

-----------------------------------------------------------------------------
(* More read queries of the store, used by the plugin *)

StatsLimit == 10
ContextTriplesLimit == 50
ContextCooccurrencesLimit == 10

\* ORDER BY last_seen DESC; rows of one timestamp come in primary-key order
RECURSIVE OrderByLastSeenDesc(_)
OrderByLastSeenDesc(rows) ==
    IF rows = {} THEN <<>>
    ELSE LET first == CHOOSE e \in rows : \A o \in rows :
                          \/ e.last_seen > o.last_seen
                          \/ e.last_seen = o.last_seen /\ ~StrLess(o.id, e.id)
         IN <<first>> \o OrderByLastSeenDesc(rows \ {first})

getStats(d, agentId) ==
    LET aid == OrElse(agentId, "main")
        ents == { e \in d.entities : e.agent_id = aid }
    IN [entityCount |-> Cardinality(ents),
        tripleCount |-> Cardinality({ r \in d.triples : r.agent_id = aid }),
        recentEntities |-> Take(OrderByLastSeenDesc(ents), StatsLimit),
        topCooccurrences |-> Take(OrderByCountDesc(d.cooccurrences), StatsLimit)]

\* a name filter that is undefined, null or '' adds no condition
NoName(name) == name \in {NullName, <<>>}

queryTriples(d, f) ==
    Take(OrderByUpdatedDesc(
            { r \in d.triples :
                /\ NoName(f.subject) \/ r.subject = normalizeEntityId(f.subject)
                /\ Falsy(f.predicate) \/ r.predicate = f.predicate
                /\ NoName(f.object) \/ r.object = normalizeEntityId(f.object)
                /\ Falsy(f.agentId) \/ r.agent_id = f.agentId }),
         NumOrElse(f.limit, DefaultTriplesLimit))

\* the entries of relationships[predicate], in the order of the triples
RECURSIVE Relationships(_, _)
Relationships(triples, predicate) ==
    IF triples = <<>> THEN <<>>
    ELSE (IF Head(triples).predicate = predicate
          THEN <<[subject |-> Head(triples).subject, object |-> Head(triples).object,
                  confidence |-> Head(triples).confidence,
                  date |-> Head(triples).source_date]>>
          ELSE <<>>) \o Relationships(Tail(triples), predicate)

\* faulty variant: an entity that no triple mentions counts as unregistered
getEntityContextOfTriples(d, entityName, agentId) ==
    LET aid == OrElse(agentId, "main")
        id == normalizeEntityId(entityName)
        entity == getEntity(d, id)
        triples == getTriplesFor(d, entityName, aid, Some(ContextTriplesLimit))
    IN IF entity = {} \/ triples = <<>> THEN None
       ELSE Some([entity |-> CHOOSE e \in entity : TRUE,
                  relationships |-> [p \in { triples[i].predicate : i \in 1..Len(triples) }
                                       |-> Relationships(triples, p)],
                  cooccurrences |-> <<>>,
                  tripleCount |-> Len(triples)])

\* GraphSearcher.getEntityContext; null is None, an object c is Some(c)
getEntityContext(d, entityName, agentId) ==
    LET aid == OrElse(agentId, "main")
        id == normalizeEntityId(entityName)
        entity == getEntity(d, id)
        triples == getTriplesFor(d, entityName, aid, Some(ContextTriplesLimit))
        cooccurrences == getCooccurrences(d, entityName, Some(ContextCooccurrencesLimit))
    IN IF entity = {} THEN None
       ELSE Some([entity |-> CHOOSE e \in entity : TRUE,
                  relationships |-> [p \in { triples[i].predicate : i \in 1..Len(triples) }
                                       |-> Relationships(triples, p)],
                  cooccurrences |-> [i \in 1..Len(cooccurrences) |->
                                       [entity |-> IF cooccurrences[i].entity_a = id
                                                   THEN cooccurrences[i].entity_b
                                                   ELSE cooccurrences[i].entity_a,
                                        count |-> cooccurrences[i].count,
                                        lastSeen |-> cooccurrences[i].last_seen]],
                  tripleCount |-> Len(triples)])

-----------------------------------------------------------------------------
(* The plugin (index.js): one store and searcher per agent, the hooks and  *)
(* the gateway methods.  What the extractor returns for a message or a     *)
(* query is an input of the hook.                                          *)

\* the number of hook and gateway calls explored
MaxHooks == 3

\* config.retrieval
RetrievalConfig == DefaultConfig

\* faulty variant: every agent opens the file of "main"
DbPathShared(id) == <<"data", "graph.db">>

\* dbPath: <data>/graph.db for "main", <data>/agents/<id>/graph.db otherwise
DbPath(id) ==
    IF id = "main" THEN <<"data", "graph.db">> ELSE <<"data", "agents", id, "graph.db">>

\* new GraphStore(dbPath) opens the file and creates the tables that are missing
OpenStore(fl, path) == IF path \in DOMAIN fl THEN fl ELSE Put(fl, path, EmptyDb)

LogEntry(level, agent, event) == [level |-> level, agent |-> agent, event |-> event]

\* getState(agentId): the Map and the files it leaves, what it logs, the state it
\* returns; serial tells the objects apart that `new` creates
getState(st, fl, agentId) ==
    LET id == OrElse(agentId, "main")
    IN IF id \in DOMAIN st
       THEN [states |-> st, files |-> fl, logged |-> <<>>, state |-> st[id]]
       ELSE LET state == [agentId |-> id, store |-> DbPath(id),
                          searcher |-> Searcher(RetrievalConfig),
                          serial |-> Cardinality(DOMAIN st) + 1]
            IN [states |-> Put(st, id, state),
                files |-> OpenStore(fl, DbPath(id)),
                logged |-> <<LogEntry("info", id, "initialized")>>,
                state |-> state]

\* a handler that returns before it calls getState
NoState == [states |-> states, files |-> files, logged |-> <<>>, state |-> NULL]

\* event.metadata?.exchangeId || event.metadata?.sessionId || `exchange_${Date.now()}`
SourceExchangeId(event, t) ==
    OrElse(event.exchangeId, OrElse(event.sessionId, "exchange_" \o ToString(t)))

\* faulty variant: no try/catch around the write
WriteOutcomeRethrown(o, agent) ==
    [threw |-> o.threw,
     logged |-> IF o.threw THEN <<>> ELSE <<LogEntry("info", agent, "wrote")>>]

\* try { writeExchange(...); logger.info(...) } catch (err) { logger.error(...) }
WriteOutcome(o, agent) ==
    [threw |-> FALSE,
     logged |-> IF o.threw THEN <<LogEntry("error", agent, "write failed")>>
                ELSE <<LogEntry("info", agent, "wrote")>>]

(* Inputs of the hooks and gateway methods *)

AgentIds == {NULL, "x"}

Extraction(ents, trs, pairs) == [entities |-> ents, triples |-> trs, cooccurrences |-> pairs]

EndEvent(heartbeat, messages, extraction, exchangeId) ==
    [isHeartbeat |-> heartbeat, messages |-> messages, extraction |-> extraction,
     exchangeId |-> exchangeId, sessionId |-> NULL]

GoodExtraction ==
    Extraction(<<Ent(Alice), Ent(Bob)>>, <<BatchTriple(Alice, Bob, Some(8))>>,
               <<<<Alice, Bob>>>>)

EndEvents ==
    { EndEvent(TRUE, "chat", GoodExtraction, "E1"),
      EndEvent(FALSE, "none", GoodExtraction, "E1"),
      EndEvent(FALSE, "document", GoodExtraction, "E1"),
      EndEvent(FALSE, "chat", Extraction(<<>>, <<>>, <<>>), "E1"),
      EndEvent(FALSE, "chat", GoodExtraction, "E1"),
      EndEvent(FALSE, "chat",
               Extraction(<<Ent(Alice), Ent(Bob)>>, <<BatchTriple(Bob, Bob, Some(6))>>, <<>>),
               NULL),
      EndEvent(FALSE, "chat",
               Extraction(<<Ent(Bob)>>,
                          <<BatchTriple(Bob, Alice, Some(6)), BatchTriple(NullName, Bob, None)>>,
                          <<<<Alice, Bob>>>>),
               "E2") }

StartEvent(hasUser, stripped, extracted, gazetteered) ==
    [hasUserMessage |-> hasUser, stripped |-> stripped,
     extracted |-> extracted, gazetteered |-> gazetteered]

\* stripped is the length of the query text after stripContextBlocks
StartEvents ==
    { StartEvent(FALSE, 5, <<Ent(Alice)>>, <<>>),
      StartEvent(TRUE, 0, <<Ent(Alice)>>, <<>>),
      StartEvent(TRUE, 4, <<Ent(Alice)>>, <<>>),
      StartEvent(TRUE, 5, <<Ent(Alice)>>, <<>>),
      StartEvent(TRUE, 5, <<>>, <<Ent(Bob)>>) }

EntityParams == { [name |-> n, agentId |-> a] : n \in {NullName, <<>>, Alice, Bob},
                                                 a \in AgentIds }

SearchParams ==
    { [extracted |-> <<Ent(Bob)>>, gazetteered |-> <<>>, limit |-> None, agentId |-> a]
        : a \in AgentIds }

TripleParams ==
    { [subject |-> Alice, predicate |-> NULL, object |-> NullName, limit |-> None,
       agentId |-> a] : a \in AgentIds }

(* The handlers as actions *)

\* one handler has run: g is what its getState call left, fl the files and
\* lr the lastResults it leaves, entries what it logged after getState
Handle(op, args, g, fl, lr, ret, threw, entries) ==
    /\ steps < MaxHooks
    /\ steps' = steps + 1
    /\ states' = g.states
    /\ files' = fl
    /\ lastResults' = lr
    /\ logged' = logged \o g.logged \o entries
    /\ call' = [op |-> op, args |-> args, ret |-> ret, threw |-> threw]
    /\ UNCHANGED <<db, now, tx, observed, procs>>

\* a query of fewer characters is not searched for
MinQueryLength == 5

\* faulty variant: the entry is written also when no exchange was found
PublishAlways(bus, agentId, results, t) ==
    Put(bus, agentId, [exchanges |-> results.exchanges,
                       entities |-> results.entities, timestamp |-> t])

\* if (results.exchanges.length === 0) return {};
\* global.__ocGraph.lastResults[state.agentId] = { exchanges, entities, timestamp }
Publish(bus, agentId, results, t) ==
    IF Len(results.exchanges) = 0 THEN bus
    ELSE Put(bus, agentId, [exchanges |-> results.exchanges,
                            entities |-> results.entities, timestamp |-> t])

\* api.on('before_agent_start', ...)
BeforeAgentStart ==
    \E agentId \in AgentIds, event \in StartEvents :
        LET g == getState(states, files, agentId)
            state == g.state
            skip == ~event.hasUserMessage \/ event.stripped < MinQueryLength
            results == search(g.files[state.store], state.searcher, event.extracted,
                              event.gazetteered, state.agentId, None)
            found == ~skip /\ Len(results.exchanges) # 0
        IN Handle("before_agent_start", [agentId |-> agentId, event |-> event],
                  g, g.files,
                  IF skip THEN lastResults
                  ELSE Publish(lastResults, state.agentId, results, now),
                  EmptyMap, FALSE,
                  IF found THEN <<LogEntry("info", state.agentId, "found")>> ELSE <<>>)

\* api.on('agent_end', ...)
AgentEnd ==
    \E agentId \in AgentIds, event \in EndEvents :
        LET early == event.isHeartbeat \/ event.messages \in {"none", "document"}
            g == IF early THEN NoState ELSE getState(states, files, agentId)
            state == g.state
            empty == Len(event.extraction.entities) = 0
            o == writeExchange(g.files[state.store],
                    [entities |-> event.extraction.entities,
                     triples |-> event.extraction.triples,
                     cooccurrences |-> event.extraction.cooccurrences,
                     agentId |-> state.agentId,
                     sourceExchangeId |-> SourceExchangeId(event, now),
                     sourceDate |-> Some(Today(now))], now)
            out == WriteOutcome(o, state.agentId)
        IN Handle("agent_end", [agentId |-> agentId, event |-> event], g,
                  IF early \/ empty THEN g.files ELSE Put(g.files, state.store, o.db),
                  lastResults, NULL,
                  IF early \/ empty THEN FALSE ELSE out.threw,
                  IF early
                  THEN (IF ~event.isHeartbeat /\ event.messages = "document"
                        THEN <<LogEntry("debug", agentId, "skipped document")>> ELSE <<>>)
                  ELSE IF empty THEN <<>> ELSE out.logged)

\* api.on('session_end', ...)
SessionEnd ==
    \E agentId \in AgentIds :
        LET g == getState(states, files, agentId)
        IN Handle("session_end", [agentId |-> agentId], g, g.files, lastResults, NULL,
                  FALSE, <<LogEntry("info", g.state.agentId, "session end")>>)

Respond(ok, payload) == [ok |-> ok, payload |-> payload]

\* graph.getState
GraphGetState ==
    \E agentId \in AgentIds :
        LET g == getState(states, files, agentId)
            stats == getStats(g.files[g.state.store], g.state.agentId)
        IN Handle("graph.getState", [agentId |-> agentId], g, g.files, lastResults,
                  Respond(TRUE, [agentId |-> g.state.agentId,
                                 entityCount |-> stats.entityCount,
                                 tripleCount |-> stats.tripleCount,
                                 recentEntities |-> stats.recentEntities,
                                 topCooccurrences |-> stats.topCooccurrences]),
                  FALSE, <<>>)

\* graph.search
GraphSearch ==
    \E params \in SearchParams :
        LET g == getState(states, files, params.agentId)
        IN Handle("graph.search", params, g, g.files, lastResults,
                  Respond(TRUE, search(g.files[g.state.store], g.state.searcher,
                                       params.extracted, params.gazetteered,
                                       g.state.agentId, params.limit)),
                  FALSE, <<>>)

\* graph.getEntity
GraphGetEntity ==
    \E params \in EntityParams :
        LET missing == NoName(params.name)
            g == IF missing THEN NoState ELSE getState(states, files, params.agentId)
            context == getEntityContext(g.files[g.state.store], params.name,
                                        g.state.agentId)
        IN Handle("graph.getEntity", params, g, g.files, lastResults,
                  IF missing THEN Respond(FALSE, [error |-> "Missing entity name"])
                  ELSE IF context = None
                  THEN Respond(FALSE, [error |-> "Entity not found", name |-> params.name])
                  ELSE Respond(TRUE, context[1]),
                  FALSE, <<>>)

\* graph.getTriples
GraphGetTriples ==
    \E params \in TripleParams :
        LET g == getState(states, files, params.agentId)
        IN Handle("graph.getTriples", params, g, g.files, lastResults,
                  Respond(TRUE, [triples |->
                     queryTriples(g.files[g.state.store],
                                  [subject |-> params.subject, predicate |-> params.predicate,
                                   object |-> params.object, agentId |-> g.state.agentId,
                                   limit |-> params.limit])]),
                  FALSE, <<>>)

\* the entries of the Map in insertion order
RECURSIVE AgentsFrom(_, _)
AgentsFrom(st, n) ==
    IF n > Cardinality(DOMAIN st) THEN <<>>
    ELSE LET id == CHOOSE k \in DOMAIN st : st[k].serial = n
             stats == getStats(files[st[id].store], id)
         IN <<[agentId |-> id, entityCount |-> stats.entityCount,
               tripleCount |-> stats.tripleCount]>> \o AgentsFrom(st, n + 1)

\* graph.listAgents
GraphListAgents ==
    Handle("graph.listAgents", NULL, NoState, files, lastResults,
           Respond(TRUE, AgentsFrom(states, 1)), FALSE, <<>>)

NextPlugin ==
    \/ BeforeAgentStart
    \/ AgentEnd
    \/ SessionEnd
    \/ GraphGetState
    \/ GraphSearch
    \/ GraphGetEntity
    \/ GraphGetTriples
    \/ GraphListAgents

SpecPlugin == Init /\ [][NextPlugin]_vars

-----------------------------------------------------------------------------
(* normalizeEntityId on its own: one entity is mentioned under one         *)
(* spelling after the other.  call.args.name is the spelling the caller    *)
(* holds; it starts as any name over NameAlphabet of at most MaxLen        *)
(* characters.                                                             *)

\* the longest name
MaxLen == 4
\* how often the entity is registered
MaxMentions == 2

NameAlphabet == {"A", "a", " "}

Names == UNION { [1..n -> NameAlphabet] : n \in 0..MaxLen }

\* the same letter in the other case
SwapCase(c) ==
    CASE c = "A" -> "a"
      [] c = "a" -> "A"
      [] c = "B" -> "b"
      [] c = "b" -> "B"
      [] OTHER   -> c

\* the spellings one step away from s: one letter in the other case, one
\* whitespace character more or less at the start, at the end, or in a run
Respellings(s) ==
    { t \in
        { [s EXCEPT ![i] = SwapCase(s[i])] : i \in 1..Len(s) }
        \cup { <<w>> \o s : w \in Whitespace }
        \cup { s \o <<w>> : w \in Whitespace }
        \cup { SubSeq(s, 1, i) \o <<s[i]>> \o SubSeq(s, i + 1, Len(s)) :
                 i \in { k \in 1..Len(s) : s[k] \in Whitespace } }
        \cup { SubSeq(s, 1, i - 1) \o SubSeq(s, i + 1, Len(s)) :
                 i \in { k \in 1..Len(s) :
                           /\ s[k] \in Whitespace
                           /\ \/ k = 1 \/ k = Len(s)
                              \/ s[k + 1] \in Whitespace } }
      : Len(t) <= MaxLen /\ t # s }

Holding(name) == [op |-> "new", args |-> [name |-> name], ret |-> NULL, threw |-> FALSE]

InitNormalize ==
    /\ \E name \in Names : call = Holding(name)
    /\ db = EmptyDb
    /\ now = 0
    /\ steps = 0
    /\ tx = NoTx
    /\ observed = NotRead
    /\ states = EmptyMap
    /\ files = EmptyMap
    /\ logged = <<>>
    /\ lastResults = EmptyMap
    /\ procs = NoProcs

\* the caller spells the name differently
Respell ==
    \E name \in Respellings(call.args.name) :
        /\ call' = Holding(name)
        /\ UNCHANGED <<db, now, steps, tx, observed, states, files, logged, lastResults, procs>>

\* the caller uses the id a call returned as the name
UseId ==
    /\ call.op # "new"
    /\ call' = Holding(call.ret)
    /\ UNCHANGED <<db, now, steps, tx, observed, states, files, logged, lastResults, procs>>

\* store.normalizeEntityId(name)
NormalizeName ==
    /\ call.op = "new"
    /\ call' = [op |-> "normalizeEntityId", args |-> call.args,
                ret |-> normalizeEntityId(call.args.name), threw |-> FALSE]
    /\ UNCHANGED <<db, now, steps, tx, observed, states, files, logged, lastResults, procs>>

\* store.upsertEntity(name)
UpsertName ==
    /\ call.op = "new"
    /\ steps < MaxMentions
    /\ LET o == upsertEntity(db, call.args.name, NULL, NULL, now)
       IN /\ db' = o.db
          /\ call' = [op |-> "upsertEntity", args |-> call.args, ret |-> o.ret,
                      threw |-> o.threw]
    /\ steps' = steps + 1
    /\ UNCHANGED <<now, tx, observed, states, files, logged, lastResults, procs>>

NextNormalize ==
    \/ Respell
    \/ UseId
    \/ NormalizeName
    \/ UpsertName

SpecNormalize == InitNormalize /\ [][NextNormalize]_vars

-----------------------------------------------------------------------------
(* addTriple statement by statement, run by two processes that have opened *)
(* the same database file.  Outside writeExchange there is no transaction: *)
(* the SELECT of _findTriple and the UPDATE or INSERT that follows are two *)
(* autocommitted statements, and statements of the other process can run   *)
(* between them.                                                           *)

\* how many addTriple calls each process makes
MaxCalls == 2

\* what _findTriple.get can return: undefined (None), or a row with the key
\* (LIMIT 1 without ORDER BY: any of them, if there are several)
LookupResults(d, tr) ==
    LET existing == FindTriple(d, normalizeEntityId(tr.subject), tr.predicate,
                               normalizeEntityId(tr.object), OrElse(tr.agentId, "main"))
    IN IF existing = {} THEN {None} ELSE { Some(r.id) : r \in existing }

\* addTriple after the lookup: the UPDATE of the row found, or the INSERT
WriteTriple(d, tr, existing, t) ==
    LET c == NumOrElse(tr.confidence, DefaultConfidence)
    IN IF existing # None
       THEN Returned(UpdateTripleConfidence(d, c, existing[1], t), existing[1])
       ELSE IF tr.predicate = NULL
       THEN Thrown(d)
       ELSE Returned(InsertTriple(d, normalizeEntityId(tr.subject), tr.predicate,
                                  normalizeEntityId(tr.object), c,
                                  OrElse(tr.sourceExchangeId, NULL),
                                  IF tr.sourceDate = None THEN Today(t)
                                  ELSE tr.sourceDate[1],
                                  OrElse(tr.agentId, "main"),
                                  IF tr.pendingResolution THEN 1 ELSE 0, t),
                     d.seq + 1)

\* a process enters addTriple and runs the lookup
FindStep ==
    \E p \in Processes, tr \in TripleInputs :
        /\ procs[p].pc = "idle"
        /\ procs[p].n < MaxCalls
        /\ \E e \in LookupResults(db, tr) :
              procs' = [procs EXCEPT ![p] = [pc |-> "found", args |-> tr,
                                             existing |-> e, n |-> procs[p].n]]
        /\ UNCHANGED <<db, now, call, steps, tx, observed, states, files, logged, lastResults>>

\* the process runs the UPDATE or the INSERT the lookup decided on, and returns
WriteStep ==
    \E p \in Processes :
        /\ procs[p].pc = "found"
        /\ LET o == WriteTriple(db, procs[p].args, procs[p].existing, now)
           IN /\ db' = o.db
              /\ call' = [op |-> "addTriple", args |-> procs[p].args, ret |-> o.ret,
                          threw |-> o.threw]
        /\ procs' = [procs EXCEPT ![p] = [@ EXCEPT !.pc = "idle", !.n = @ + 1]]
        /\ UNCHANGED <<now, steps, tx, observed, states, files, logged, lastResults>>

NextProcesses ==
    \/ FindStep
    \/ WriteStep

SpecProcesses == Init /\ [][NextProcesses]_vars

-----------------------------------------------------------------------------
(* The read operations as calls.  Each runs SELECT statements only; its    *)
(* outcome is what the statements return and the store as they leave it.   *)

\* faulty variant: the lookup counts a mention of the entity it finds, as the
\* upsert does
getEntityTouching(d, id) ==
    Returned([d EXCEPT !.entities =
                { IF e.id = id THEN [e EXCEPT !.mention_count = e.mention_count + 1]
                  ELSE e : e \in d.entities }],
             getEntity(d, id))

\* store.getEntity(id): _getEntity.get
getEntityCall(d, id) == Returned(d, getEntity(d, id))

\* store.getEntityByName(name, agentId): _getEntityByName.get
getEntityByName(d, name, agentId) ==
    { e \in d.entities : e.canonical_name = name /\ e.agent_id = OrElse(agentId, "main") }

getEntityByNameCall(d, name, agentId) == Returned(d, getEntityByName(d, name, agentId))

getTriplesForCall(d, entityName, agentId, limit) ==
    Returned(d, getTriplesFor(d, entityName, agentId, limit))

getCooccurrencesCall(d, entityName, limit) ==
    Returned(d, getCooccurrences(d, entityName, limit))

getStatsCall(d, agentId) == Returned(d, getStats(d, agentId))

queryTriplesCall(d, f) == Returned(d, queryTriples(d, f))

\* searcher.search: getTriplesFor, getCooccurrences and _getTriplesByNormalizedId
searchCall(d, config, q) == Returned(d, Run(d, config, q))

\* searcher.getEntityContext: it starts with store.getEntity
getEntityContextCall(d, entityName, agentId) ==
    LET o == getEntityCall(d, normalizeEntityId(entityName))
    IN Returned(o.db, getEntityContext(o.db, entityName, agentId))

(* Inputs of the read calls *)

TripleFilters ==
    { [subject |-> s, predicate |-> p, object |-> NullName, agentId |-> a, limit |-> None]
        : s \in {NullName, Alice}, p \in {NULL, "p"}, a \in {NULL} }

ReadQueries ==
    { Query(<<Ent(Alice)>>, <<>>, NULL),
      Query(<<Ent(Alice), Ent(Bob)>>, <<Ent(<<"a">>)>>, NULL),
      Query(<<Ent(Bob)>>, <<Ent(Alice)>>, "x") }

ReadOps ==
    {"search", "getEntityContext", "getTriplesFor", "getCooccurrences",
     "queryTriples", "getStats", "getEntity", "getEntityByName"}

(* The read calls as actions *)

Search ==
    \E q \in ReadQueries : Finish("search", q, searchCall(db, DefaultConfig, q))

GetEntityContext ==
    \E name \in EntityNames :
        Finish("getEntityContext", name, getEntityContextCall(db, name, NULL))

GetTriplesFor ==
    \E name \in EntityNames, limit \in TripleLimits :
        Finish("getTriplesFor", [name |-> name, limit |-> limit],
               getTriplesForCall(db, name, NULL, limit))

GetCooccurrences ==
    \E name \in EntityNames :
        Finish("getCooccurrences", name, getCooccurrencesCall(db, name, None))

QueryTriples ==
    \E f \in TripleFilters : Finish("queryTriples", f, queryTriplesCall(db, f))

GetStats ==
    \E agentId \in AgentIds : Finish("getStats", agentId, getStatsCall(db, agentId))

GetEntity ==
    \E id \in { normalizeEntityId(n) : n \in EntityNames } :
        Finish("getEntity", id, getEntityCall(db, id))

GetEntityByName ==
    \E name \in EntityNames :
        Finish("getEntityByName", name, getEntityByNameCall(db, name, NULL))

NextReads ==
    \/ WriteExchange
    \/ AddTriple
    \/ Search
    \/ GetEntityContext
    \/ GetTriplesFor
    \/ GetCooccurrences
    \/ QueryTriples
    \/ GetStats
    \/ GetEntity
    \/ GetEntityByName

SpecReads == Init /\ [][NextReads]_vars

-----------------------------------------------------------------------------
(* Vocabulary of the properties *)

\* the step is the API call `op`
AnyCall == steps' = steps + 1 /\ now' = now
CallStep(op) == AnyCall /\ call'.op = op

TripleKey(r) == <<r.subject, r.predicate, r.object, r.agent_id>>

\* the key an addTriple argument addresses
ArgKey(tr) == <<normalizeEntityId(tr.subject), tr.predicate,
                normalizeEntityId(tr.object), OrElse(tr.agentId, "main")>>

RowsWithKey(d, k) == { r \in d.triples : TripleKey(r) = k }

RECURSIVE SumMentions(_)
SumMentions(rows) ==
    IF rows = {} THEN 0
    ELSE LET e == CHOOSE x \in rows : TRUE
         IN e.mention_count + SumMentions(rows \ {e})

\* the mention count stored for an id (0 when the id is not registered)
Mentions(d, id) == SumMentions(getEntity(d, id))

\* how many entries of an entities list normalize to id
Occurrences(ents, id) ==
    Cardinality({ i \in 1..Len(ents) : /\ ents[i].name # NullName
                                        /\ normalizeEntityId(ents[i].name) = id })

EntityIds == { normalizeEntityId(n) : n \in {Alice, alice_, Bob} }

\* some element of a writeExchange input makes its statement fail
InputFails(in) ==
    \/ \E i \in 1..Len(in.entities) : in.entities[i].name = NullName
    \/ \E i \in 1..Len(in.triples) :
          in.triples[i].subject = NullName \/ in.triples[i].object = NullName
    \/ \E i \in 1..Len(in.cooccurrences) :
          in.cooccurrences[i][1] = NullName \/ in.cooccurrences[i][2] = NullName

-----------------------------------------------------------------------------
(* C1: after any sequence of addTriple, writeExchange and                  *)
(* deleteTriplesByExchange calls, the triples table holds at most one row  *)
(* for each key (subject id, predicate, object id, agent id).              *)
C1_OneRowPerKey ==
    \A r1, r2 \in db.triples : TripleKey(r1) = TripleKey(r2) => r1 = r2

\* an addTriple call has hit a row that an earlier call inserted
C1_Witness ==
    /\ call.op = "addTriple"
    /\ \E r \in db.triples : r.id = call.ret /\ r.updated_at > r.created_at

(* C2: when a step of writeExchange fails (an entity upsert, a triple      *)
(* write, or a co-occurrence upsert part-way through the batch), the call  *)
(* throws and entities, triples and co-occurrences are what they were      *)
(* before the call.                                                        *)
C2_FailedExchangeLeavesStore ==
    [][CallStep("writeExchange") /\ InputFails(call'.args)
         => /\ call'.threw
            /\ db'.entities = db.entities
            /\ db'.triples = db.triples
            /\ db'.cooccurrences = db.cooccurrences]_vars

\* a batch failed at its second co-occurrence pair, on a store that held rows
C2_Witness ==
    /\ call.op = "writeExchange" /\ call.threw
    /\ Len(call.args.cooccurrences) = 2
    /\ call.args.cooccurrences[1][1] # NullName
    /\ db.entities # {} /\ db.triples # {}

(* C3: a reader of the same backing store that runs while a writeExchange *)
(* is in flight reads none of the exchange's writes; a reader that runs    *)
(* after it committed reads all of them: every entity upsert, every triple *)
(* write and every co-occurrence increment.  No read shows a proper subset.*)
PairIds(pair) == SortPair(normalizeEntityId(pair[1]), normalizeEntityId(pair[2]))

CoocCount(coocs, p) ==
    IF \E c \in coocs : <<c.entity_a, c.entity_b>> = p
    THEN (CHOOSE c \in coocs : <<c.entity_a, c.entity_b>> = p).count
    ELSE 0

\* tables holds every write of the exchange `in` on top of the store `before`
AllApplied(before, in, tables) ==
    /\ \A id \in EntityIds :
          Mentions(tables, id) = Mentions(before, id) + Occurrences(in.entities, id)
    /\ \A i \in 1..Len(in.triples) :
          \E r \in tables.triples :
             /\ r.subject = normalizeEntityId(in.triples[i].subject)
             /\ r.object = normalizeEntityId(in.triples[i].object)
             /\ r.predicate = in.triples[i].predicate
             /\ r.agent_id = OrElse(in.agentId, "main")
             /\ r.confidence >= NumOrElse(in.triples[i].confidence, DefaultConfidence)
    /\ \A i \in 1..Len(in.cooccurrences) :
          CoocCount(tables.cooccurrences, PairIds(in.cooccurrences[i]))
            = CoocCount(before.cooccurrences, PairIds(in.cooccurrences[i]))
              + Cardinality({ j \in 1..Len(in.cooccurrences) :
                                PairIds(in.cooccurrences[j]) = PairIds(in.cooccurrences[i]) })

NoneApplied(before, tables) ==
    /\ tables.entities = before.entities
    /\ tables.triples = before.triples
    /\ tables.cooccurrences = before.cooccurrences

C4_Claim ==
    [][CallStep("addTriple") /\ ~call'.threw
         => LET tr == call'.args
                c == IF tr.confidence = None THEN DefaultConfidence
                     ELSE tr.confidence[1]
                old == RowsWithKey(db, ArgKey(tr))
            IN \A r \in RowsWithKey(db', ArgKey(tr)) :
                  r.confidence =
                    IF old = {} THEN c
                    ELSE Max((CHOOSE o \in old : TRUE).confidence, c)]_vars

(* C5, as claimed: an upsert of a name under one agent leaves the rows of  *)
(* every other agent unchanged and leaves a row of its own agent for the   *)
(* id.                                                                     *)
C5_Claim ==
    [][CallStep("upsertEntity") /\ ~call'.threw
         => LET aid == OrElse(call'.args.agentId, "main")
                id == normalizeEntityId(call'.args.name)
            IN /\ \A e \in db.entities : e.agent_id # aid => e \in db'.entities
               /\ \E e \in db'.entities : e.id = id /\ e.agent_id = aid]_vars

(* C6, as claimed: every co-occurrence row has entityA < entityB, and no   *)
(* unordered pair of ids is held by more than one row.                     *)
C6_Claim ==
    /\ \A c \in db.cooccurrences : StrLess(c.entity_a, c.entity_b)
    /\ \A c1, c2 \in db.cooccurrences :
          {c1.entity_a, c1.entity_b} = {c2.entity_a, c2.entity_b} => c1 = c2

(* C7: every entity row has mentionCount >= 1; a committed upsertEntity or *)
(* resolveEntity adds one to the count of its id, a committed             *)
(* writeExchange adds to each id the number of its entries for that id,    *)
(* and no other call (a failed writeExchange, addTriple,                   *)
(* deleteTriplesByExchange) changes any count.                             *)
C7_MentionCount ==
    [][AnyCall
         => /\ \A e \in db'.entities : e.mention_count >= 1
            /\ \A id \in EntityIds :
                 Mentions(db', id) = Mentions(db, id) +
                   (CASE call'.op \in {"upsertEntity", "resolveEntity"} /\ ~call'.threw
                           -> IF normalizeEntityId(call'.args.name) = id THEN 1 ELSE 0
                      [] call'.op = "writeExchange" /\ ~call'.threw
                           -> Occurrences(call'.args.entities, id)
                      [] OTHER -> 0)]_vars

\* one writeExchange has counted the same id twice, on top of an earlier mention
C7_Witness ==
    /\ call.op = "writeExchange" /\ ~call.threw
    /\ \E e \in db.entities :
          e.mention_count >= 3 /\ Occurrences(call.args.entities, e.id) = 2

(* C8: an addTriple call whose key already exists inserts no row, returns  *)
(* the id of the existing row, and leaves the entities table and the       *)
(* co-occurrence table unchanged.                                          *)
C8_DedupHitFrame ==
    [][CallStep("addTriple") /\ RowsWithKey(db, ArgKey(call'.args)) # {}
         => /\ ~call'.threw
            /\ { r.id : r \in db'.triples } = { r.id : r \in db.triples }
            /\ Cardinality(db'.triples) = Cardinality(db.triples)
            /\ \E r \in RowsWithKey(db, ArgKey(call'.args)) : call'.ret = r.id
            /\ db'.entities = db.entities
            /\ db'.cooccurrences = db.cooccurrences]_vars

\* addTriple has hit and raised an existing row, later than the entities were
\* last seen
C8_Witness ==
    /\ call.op = "addTriple" /\ ~call.threw
    /\ \E r \in db.triples : r.id = call.ret /\ r.created_at < r.updated_at
    /\ db.cooccurrences # {}
    /\ \E e \in db.entities : e.last_seen < now

(* C9: deleteTriplesByExchange(E), E an exchange id, removes exactly the   *)
(* triples whose sourceExchangeId is E; the other triples, all entity rows *)
(* and all co-occurrence rows are unchanged (a null E removes nothing).    *)
C9_DeleteFrame ==
    [][CallStep("deleteTriplesByExchange")
         => /\ db'.triples = { r \in db.triples :
                                 call'.args = NULL \/ r.source_exchange_id # call'.args }
            /\ db'.entities = db.entities
            /\ db'.cooccurrences = db.cooccurrences
            /\ db'.seq = db.seq]_vars

\* a delete removed the triples of one exchange and kept those of another
C9_Witness ==
    /\ call.op = "deleteTriplesByExchange" /\ call.ret >= 1
    /\ \E r \in db.triples : r.source_exchange_id \notin {NULL, call.args}
    /\ db.entities # {} /\ db.cooccurrences # {}
(* C10: every exchange returned by search has sharedEntityCount >=        *)
(* minSharedEntities (1 when the configuration gives none), and            *)
(* sharedEntityCount counts the query entities that have a direct triple   *)
(* attributed to the exchange; under the default configuration an exchange *)
(* that no query entity has a direct triple in is never returned.          *)
DirectShared(d, queryEntities, aid, exchangeId) ==
    { ToLowerCase(queryEntities[i].name) : i \in
        { j \in 1..Len(queryEntities) :
            \E r \in d.triples :
               /\ r.agent_id = aid
               /\ r.source_exchange_id = exchangeId
               /\ \/ r.subject = normalizeEntityId(queryEntities[j].name)
                  \/ r.object = normalizeEntityId(queryEntities[j].name) } }

C10_SharedEntityGate ==
    \A config \in Configs, q \in Queries :
        LET res == Run(db, config, q)
            min == IF config.minSharedEntities = None THEN 1
                   ELSE config.minSharedEntities[1]
        IN \A i \in 1..Len(res.exchanges) :
              LET x == res.exchanges[i]
                  shared == DirectShared(db, res.entities, OrElse(q.agentId, "main"), x.id)
              IN /\ x.sharedEntityCount >= min
                 /\ x.sharedEntityCount = Cardinality(shared)
                 /\ config.minSharedEntities = None => shared # {}

\* exchanges touched by the co-occurrence expansion of a query
ReachedByCooccurrence(d, q) ==
    LET aid == OrElse(q.agentId, "main")
        ents == MergeGazetteer(q.extracted, q.gazetteered)
    IN { r.source_exchange_id : r \in
          { t \in d.triples :
              /\ t.agent_id = aid /\ t.source_exchange_id # NULL
              /\ \E i \in 1..Len(ents), c \in d.cooccurrences :
                    \/ c.entity_a = normalizeEntityId(ents[i].name)
                       /\ c.entity_b \in {t.subject, t.object}
                    \/ c.entity_b = normalizeEntityId(ents[i].name)
                       /\ c.entity_a \in {t.subject, t.object} } }

\* a default search returns one exchange and leaves out another that it
\* reached through a co-occurrence only
C10_Witness ==
    \E q \in Queries :
        LET res == Run(db, DefaultConfig, q)
            returned == { res.exchanges[i].id : i \in 1..Len(res.exchanges) }
        IN /\ returned # {}
           /\ \E e \in ReachedByCooccurrence(db, q) :
                 /\ e \notin returned
                 /\ DirectShared(db, res.entities, OrElse(q.agentId, "main"), e) = {}

-----------------------------------------------------------------------------
(* Scoring of search *)

\* the triples of an entity id attributed to an exchange
TriplesIn(d, id, aid, exchangeId) ==
    { r \in d.triples : /\ r.subject = id \/ r.object = id
                        /\ r.agent_id = aid
                        /\ r.source_exchange_id = exchangeId }

RECURSIVE SumConfidence(_)
SumConfidence(rows) ==
    IF rows = {} THEN 0
    ELSE LET r == CHOOSE x \in rows : TRUE
         IN r.confidence + SumConfidence(rows \ {r})

\* boost x count for each triple of the other side of each co-occurrence row of id
RECURSIVE SumBoost(_, _, _, _, _, _)
SumBoost(d, coocs, id, aid, exchangeId, boost) ==
    IF coocs = {} THEN 0
    ELSE LET c == CHOOSE x \in coocs : TRUE
             other == IF c.entity_a = id THEN c.entity_b ELSE c.entity_a
         IN boost * c.count * Cardinality(TriplesIn(d, other, aid, exchangeId))
            + SumBoost(d, coocs \ {c}, id, aid, exchangeId, boost)

RECURSIVE ExpectedScore(_, _, _, _, _)
ExpectedScore(d, queryEntities, aid, exchangeId, boost) ==
    IF queryEntities = <<>> THEN 0
    ELSE LET id == normalizeEntityId(Head(queryEntities).name)
         IN SumConfidence(TriplesIn(d, id, aid, exchangeId))
            + SumBoost(d, { c \in d.cooccurrences : c.entity_a = id \/ c.entity_b = id },
                       id, aid, exchangeId, boost)
            + ExpectedScore(d, Tail(queryEntities), aid, exchangeId, boost)

-----------------------------------------------------------------------------
(* Order and cutoff of search *)

Limits == {None, Some(0), Some(1)}

SearchConfigs ==
    { DefaultConfig,
      [maxResults |-> Some(1), minSharedEntities |-> Some(0), cooccurrenceBoost |-> None] }

\* the exchange ids a query reaches, directly or through a co-occurrence
Candidates(d, q) ==
    LET aid == OrElse(q.agentId, "main")
        ents == MergeGazetteer(q.extracted, q.gazetteered)
    IN { r.source_exchange_id : r \in
           { t \in d.triples :
               /\ t.agent_id = aid /\ t.source_exchange_id # NULL
               /\ \E i \in 1..Len(ents) :
                     normalizeEntityId(ents[i].name) \in {t.subject, t.object} } }
       \cup ReachedByCooccurrence(d, q)

Ids(exchanges) == { exchanges[i].id : i \in 1..Len(exchanges) }

-----------------------------------------------------------------------------
(* C13: resolveEntity returns the normalized id of the name and isNew =    *)
(* TRUE exactly when no entity row with that id existed before the call;   *)
(* the id is registered when the call returns, and no call ever removes a  *)
(* registered id, so every later resolveEntity of a name with the same     *)
(* normalized id returns the same id with isNew = FALSE.                   *)
C13_IsNewBeforeUpsert ==
    [][AnyCall
         => /\ \A e \in db.entities : getEntity(db', e.id) # {}
            /\ (call'.op = "resolveEntity" /\ ~call'.threw)
                 => /\ call'.ret.id = normalizeEntityId(call'.args.name)
                    /\ call'.ret.isNew = (getEntity(db, call'.ret.id) = {})
                    /\ getEntity(db', call'.ret.id) # {}]_vars

\* resolveEntity has found an id registered under another spelling, after it
\* had reported the id as new
C13_Witness ==
    /\ call.op = "resolveEntity" /\ ~call.threw /\ ~call.ret.isNew
    /\ \E e \in db.entities :
          /\ e.id = call.ret.id
          /\ e.canonical_name # call.args.name
          /\ e.mention_count = 2 /\ e.agent_id = "main" /\ e.entity_type = "CONCEPT"

-----------------------------------------------------------------------------
\* the key the i-th triple of a writeExchange input addresses
BatchKey(in, i) ==
    <<normalizeEntityId(in.triples[i].subject), in.triples[i].predicate,
      normalizeEntityId(in.triples[i].object), OrElse(in.agentId, "main")>>

(* C14: a committed writeExchange returns one id per input triple, and the *)
(* i-th id is the id of the stored row whose key is the normalized key of  *)
(* the i-th input triple.                                                  *)
C14_IdsInInputOrder ==
    [][CallStep("writeExchange") /\ ~call'.threw
         => /\ Len(call'.ret) = Len(call'.args.triples)
            /\ \A i \in 1..Len(call'.ret) :
                  \E r \in db'.triples :
                     /\ r.id = call'.ret[i]
                     /\ TripleKey(r) = BatchKey(call'.args, i)]_vars

\* a batch of three triples whose first and third share a key that another
\* exchange had stored before, with a new key between them
C14_Witness ==
    /\ call.op = "writeExchange" /\ ~call.threw
    /\ Len(call.ret) = 3
    /\ call.ret[1] = call.ret[3] /\ call.ret[2] > call.ret[1]
    /\ \E r \in db.triples :
          r.id = call.ret[1] /\ r.source_exchange_id # call.args.sourceExchangeId

-----------------------------------------------------------------------------
RECURSIVE SumCounts(_)
SumCounts(rows) ==
    IF rows = {} THEN 0
    ELSE LET c == CHOOSE x \in rows : TRUE
         IN c.count + SumCounts(rows \ {c})

\* the count stored for the unordered pair {a, b} (0 when it has no row)
PairCount(d, a, b) ==
    SumCounts({ c \in d.cooccurrences : {c.entity_a, c.entity_b} = {a, b} })

\* how often the cooccurrences input lists the unordered pair {a, b}
Listed(pairs, a, b) ==
    Cardinality({ i \in 1..Len(pairs) :
                    /\ pairs[i][1] # NullName /\ pairs[i][2] # NullName
                    /\ {normalizeEntityId(pairs[i][1]), normalizeEntityId(pairs[i][2])}
                         = {a, b} })

(* C15: a committed writeExchange adds to the count of every unordered     *)
(* pair of ids the number of times its cooccurrences input lists that pair *)
(* (in either order, under any spelling), whatever the confidences of its  *)
(* triples; no other call, and no failed writeExchange, changes a count;   *)
(* so each count is the number of times the pair was listed.               *)
C15_CountPerListing ==
    [][AnyCall
         => \A a, b \in EntityIds :
               PairCount(db', a, b) = PairCount(db, a, b) +
                  (IF call'.op = "writeExchange" /\ ~call'.threw
                   THEN Listed(call'.args.cooccurrences, a, b) ELSE 0)]_vars

\* a pair listed as (b, a) by one exchange and as (a, b) by the next has count 2
C15_Witness ==
    /\ steps = 2 /\ call.op = "writeExchange" /\ ~call.threw
    /\ call.args.cooccurrences = <<<<Alice, Bob>>>>
    /\ \E r \in db.triples : r.source_exchange_id # call.args.sourceExchangeId
    /\ PairCount(db, normalizeEntityId(Alice), normalizeEntityId(Bob)) = 2

-----------------------------------------------------------------------------
(* getTriplesFor *)

\* how often the row r is in the list
TimesIn(rows, r) == Cardinality({ i \in 1..Len(rows) : rows[i] = r })

\* the limit a scan of getTriplesFor is cut to
ScanLimit(limit) == IF limit \in {None, Some(0)} THEN DefaultTriplesLimit ELSE limit[1]

(* C16, as claimed: getTriplesFor returns no triple id more than once,     *)
(* every returned triple has the normalized entity as subject or as object *)
(* and carries the requested agent id, and a triple whose subject and      *)
(* object are both the entity appears exactly once.                        *)
C16_Claim ==
    \A name \in EntityNames, agentId \in AgentIds, limit \in TripleLimits :
        LET res == getTriplesFor(db, name, agentId, limit)
            id == normalizeEntityId(name)
            aid == OrElse(agentId, "main")
        IN /\ \A i, j \in 1..Len(res) : i # j => res[i].id # res[j].id
           /\ \A i \in 1..Len(res) :
                 /\ res[i].subject = id \/ res[i].object = id
                 /\ res[i].agent_id = aid
           /\ \A r \in db.triples :
                 (r.subject = id /\ r.object = id /\ r.agent_id = aid)
                    => TimesIn(res, r) = 1

(* C16, amended: getTriplesFor returns no triple id more than once; every  *)
(* returned row is a stored triple that has the normalized entity as       *)
(* subject or as object and carries the agent id asked for (absent meaning *)
(* "main"); a triple whose subject and object are both the entity is       *)
(* returned at most once, and exactly once when the entity has at most     *)
(* limit triples as subject or at most limit triples as object.            *)
C16_NoIdTwice ==
    \A name \in EntityNames, agentId \in AgentIds, limit \in TripleLimits :
        LET res == getTriplesFor(db, name, agentId, limit)
            id == normalizeEntityId(name)
            aid == OrElse(agentId, "main")
            subjectRows == { o \in db.triples : o.subject = id /\ o.agent_id = aid }
            objectRows == { o \in db.triples : o.object = id /\ o.agent_id = aid }
        IN /\ \A i, j \in 1..Len(res) : i # j => res[i].id # res[j].id
           /\ \A i \in 1..Len(res) :
                 /\ res[i] \in db.triples
                 /\ res[i].subject = id \/ res[i].object = id
                 /\ res[i].agent_id = aid
           /\ \A r \in db.triples :
                 (r.subject = id /\ r.object = id /\ r.agent_id = aid)
                    => /\ TimesIn(res, r) <= 1
                       /\ ( \/ Cardinality(subjectRows) <= ScanLimit(limit)
                            \/ Cardinality(objectRows) <= ScanLimit(limit) )
                            => TimesIn(res, r) = 1

\* a triple from an entity to itself is returned once, next to another triple
C16_Witness ==
    \E name \in EntityNames :
        LET res == getTriplesFor(db, name, NULL, None)
        IN /\ Len(res) >= 2
           /\ \E i \in 1..Len(res) : res[i].subject = res[i].object

(* C17, as claimed: the list returned by getTriplesFor is in               *)
(* non-increasing updatedAt order over the whole list.                     *)
C17_Claim ==
    \A name \in EntityNames, agentId \in AgentIds, limit \in TripleLimits :
        LET res == getTriplesFor(db, name, agentId, limit)
        IN \A i, j \in 1..Len(res) :
              i < j => res[i].updated_at >= res[j].updated_at

-----------------------------------------------------------------------------
(* The plugin layer *)

\* a step of the hook or gateway method op
HookStep(op) == steps' = steps + 1 /\ call'.op = op

\* the store of an agent as the files hold it (the empty store before its
\* file exists)
StoreOf(fl, id) == IF DbPath(id) \in DOMAIN fl THEN fl[DbPath(id)] ELSE EmptyDb

\* the agent_end event reaches writeExchange
Writes(event) ==
    /\ ~event.isHeartbeat /\ event.messages = "chat"
    /\ Len(event.extraction.entities) > 0

LastLogged(lg) == lg[Len(lg)]

(* C18: agent_end never throws to the host; when its writeExchange fails,  *)
(* the failure is logged as an error and the store of every agent is as it *)
(* was before the hook, so the exchanges committed earlier are intact; and *)
(* in every reachable state, also after a failed write, an agent_end whose *)
(* write does not fail commits its exchange to the store of its agent.     *)
C18_WriteFailureIsolated ==
    [][HookStep("agent_end")
         => LET event == call'.args.event
                id == OrElse(call'.args.agentId, "main")
                in == [entities |-> event.extraction.entities,
                       triples |-> event.extraction.triples,
                       cooccurrences |-> event.extraction.cooccurrences,
                       agentId |-> id]
            IN /\ ~call'.threw
               /\ (Writes(event) /\ InputFails(in))
                    => /\ Len(logged') > Len(logged)
                       /\ LastLogged(logged') = LogEntry("error", id, "write failed")
                       /\ \A a \in {"main", "x"} : StoreOf(files', a) = StoreOf(files, a)
               /\ (Writes(event) /\ ~InputFails(in))
                    => /\ LastLogged(logged') = LogEntry("info", id, "wrote")
                       /\ AllApplied(StoreOf(files, id), in, StoreOf(files', id))]_vars

\* an agent has committed an exchange, failed to write the next one, and
\* committed a third one; both committed exchanges are in its store
C18_Witness ==
    /\ call.op = "agent_end"
    /\ \E i, j, k \in 1..Len(logged) :
          /\ i < j /\ j < k /\ k = Len(logged)
          /\ logged[i].event = "wrote" /\ logged[j].event = "write failed"
          /\ logged[k].event = "wrote"
          /\ logged[i].agent = logged[j].agent /\ logged[j].agent = logged[k].agent
          /\ Cardinality({ r.source_exchange_id :
                             r \in StoreOf(files, logged[k].agent).triples }) = 2

\* the agent a hook or gateway call addresses (graph.listAgents addresses none)
Addressed(c) ==
    IF c.op = "graph.listAgents" THEN {} ELSE {OrElse(c.args.agentId, "main")}

Initialized(lg, id) ==
    Cardinality({ i \in 1..Len(lg) : lg[i] = LogEntry("info", id, "initialized") })

(* C19: a hook or gateway call adds at most one entry to the Map of        *)
(* states, for the agent id it addresses (an absent id being "main"), and  *)
(* only when that id has none; the new entry has its own store object and  *)
(* its own file; every entry stays the same object in all later calls;     *)
(* and no call changes the store of an agent it does not address.          *)
C19_OneStatePerAgent ==
    [][steps' = steps + 1
         => /\ \A id \in DOMAIN states :
                  id \in DOMAIN states' /\ states'[id] = states[id]
            /\ \A id \in DOMAIN states' \ DOMAIN states :
                  /\ id \in Addressed(call')
                  /\ states'[id].agentId = id
                  /\ \A o \in DOMAIN states :
                        /\ states[o].serial # states'[id].serial
                        /\ states[o].store # states'[id].store
            /\ \A id \in {"main", "x"} :
                  /\ Initialized(logged', id) = (IF id \in DOMAIN states' THEN 1 ELSE 0)
                  /\ id \notin Addressed(call')
                       => StoreOf(files', id) = StoreOf(files, id)]_vars

\* two agents have ingested an exchange each, every row is in the store of
\* its own agent, and a later call has found the state of "main" in the Map
C19_Witness ==
    /\ call.op = "graph.getState" /\ call.ret.payload.agentId = "main"
    /\ DOMAIN states = {"main", "x"}
    /\ \A id \in DOMAIN states :
          /\ StoreOf(files, id).triples # {}
          /\ \A r \in StoreOf(files, id).triples : r.agent_id = id
    /\ Initialized(logged, "main") = 1 /\ logged[1].event = "initialized"

(* C20: getEntityContext returns null exactly when the store has no entity *)
(* row with the normalized id of the name; graph.getEntity answers a       *)
(* missing name with the failure "Missing entity name", a name whose id is *)
(* not registered with the failure "Entity not found" for that name, and a *)
(* registered name with success and the context, also when the entity has  *)
(* no triples; the three answers differ from each other.                   *)
C20_EntityNotFound ==
    [][HookStep("graph.getEntity")
         => LET params == call'.args
                aid == OrElse(params.agentId, "main")
                d == StoreOf(files', aid)
                registered == \E e \in d.entities : e.id = normalizeEntityId(params.name)
            IN IF NoName(params.name)
               THEN /\ ~call'.ret.ok
                    /\ DOMAIN call'.ret.payload = {"error"}
                    /\ call'.ret.payload.error = "Missing entity name"
               ELSE /\ (getEntityContext(d, params.name, aid) = None) <=> ~registered
                    /\ ~registered
                         => /\ ~call'.ret.ok
                            /\ call'.ret.payload.error = "Entity not found"
                            /\ call'.ret.payload.name = params.name
                    /\ registered
                         => /\ call'.ret.ok
                            /\ call'.ret.payload.entity.id = normalizeEntityId(params.name)
                            /\ call'.ret.payload.tripleCount =
                                 Cardinality({ r \in d.triples :
                                    /\ r.agent_id = aid
                                    /\ normalizeEntityId(params.name)
                                          \in {r.subject, r.object} })]_vars

\* graph.getEntity has answered with the context of a registered entity that
\* no triple mentions, in a store that holds triples of another entity
C20_Witness ==
    /\ call.op = "graph.getEntity" /\ call.ret.ok
    /\ call.ret.payload.tripleCount = 0
    /\ call.ret.payload.entity.mention_count >= 1
    /\ StoreOf(files, OrElse(call.args.agentId, "main")).triples # {}

-----------------------------------------------------------------------------
(* getCooccurrences *)

CooccurrenceLimits == {None, Some(1)}

Min(a, b) == IF a <= b THEN a ELSE b

\* the rows of the pair table that hold id on either side
RowsOf(d, id) == { c \in d.cooccurrences : id \in {c.entity_a, c.entity_b} }

\* the limit getCooccurrences cuts its result to
RowLimit(limit) ==
    IF limit \in {None, Some(0)} THEN DefaultCooccurrencesLimit ELSE limit[1]

-----------------------------------------------------------------------------
(* C22: normalizeEntityId returns its argument when it is given an id it   *)
(* returned; it returns the same id for a name and for every spelling of   *)
(* the name that has a letter in the other case, or one whitespace         *)
(* character more or less at the start, at the end or in a whitespace run  *)
(* (and so, step by step, for all names that differ only in these); and    *)
(* the spellings of a name, and the id itself used as a name, are all      *)
(* registered as one entity row, which counts every mention.               *)
C22_OneIdPerSpelling ==
    /\ Cardinality(db.entities) <= 1
    /\ call.op \in {"normalizeEntityId", "upsertEntity"}
         => /\ normalizeEntityId(call.ret) = call.ret
            /\ \A name \in Respellings(call.args.name) :
                  normalizeEntityId(name) = call.ret
            /\ \A e \in db.entities : e.id = call.ret
    /\ call.op = "upsertEntity"
         => \E e \in db.entities : e.id = call.ret /\ e.mention_count = steps

\* an entity registered as "A  a" has been registered again as "a a"
C22_Witness ==
    /\ call.op = "upsertEntity"
    /\ call.args.name = <<"a", " ", "a">>
    /\ call.ret = <<"a", "_", "a">>
    /\ \E e \in db.entities :
          e.canonical_name = <<"A", " ", " ", "a">> /\ e.mention_count = 2

-----------------------------------------------------------------------------
\* the process has returned from an addTriple call and is in no other
HasReturned(p) == procs[p].pc = "idle" /\ procs[p].n > 0

(* C23, as claimed: when two processes that share the database file have   *)
(* each run addTriple for the same (subject id, predicate, object id,      *)
(* agent id), their lookups and writes interleaved in any order, the       *)
(* triples table holds exactly one row with that key.                      *)
C23_Claim ==
    \A p, q \in Processes :
        (/\ p # q
         /\ HasReturned(p) /\ HasReturned(q)
         /\ ArgKey(procs[p].args) = ArgKey(procs[q].args))
            => Cardinality(RowsWithKey(db, ArgKey(procs[p].args))) = 1

-----------------------------------------------------------------------------
(* The entities of a search *)

\* what the extractor and the gazetteer match can return for a query
MergeQueries ==
    { Query(e, g, NULL) :
        e \in { <<>>, <<Ent(Alice)>>, <<Ent(Alice), Ent(Bob)>>,
                <<Ent(Alice), Ent(<<"a">>)>> },
        g \in { <<>>, <<Ent(<<"a">>)>>, <<Ent(Bob), Ent(<<"b">>), Ent(Alice)>> } }

\* the entries of a list whose name, ignoring case, no earlier entry has
RECURSIVE FirstOccurrences(_, _)
FirstOccurrences(list, seen) ==
    IF list = <<>> THEN <<>>
    ELSE IF ToLowerCase(Head(list).name) \in seen
         THEN FirstOccurrences(Tail(list), seen)
         ELSE <<Head(list)>>
              \o FirstOccurrences(Tail(list), seen \cup {ToLowerCase(Head(list).name)})

(* C24, as claimed: whatever lists the extractor and the gazetteer match   *)
(* return, the entities list that search returns has no two entries with   *)
(* names equal ignoring case, and of the entries of the two lists (the     *)
(* extractor's first) it keeps the first occurrence of every name.         *)
C24_Claim ==
    \A q \in MergeQueries :
        LET entities == Run(db, DefaultConfig, q).entities
        IN /\ \A i, j \in 1..Len(entities) :
                 i # j => ToLowerCase(entities[i].name) # ToLowerCase(entities[j].name)
           /\ entities = FirstOccurrences(q.extracted \o q.gazetteered, {})

-----------------------------------------------------------------------------
(* C25: a triple row gets its source_exchange_id and source_date when it   *)
(* is inserted (those of the inserting call) and keeps them as long as it  *)
(* exists: an addTriple or writeExchange removes no row, and a row it      *)
(* leaves or hits differs from before in confidence and updated_at at      *)
(* most, also when the call comes from another exchange; so                *)
(* deleteTriplesByExchange(e) removes exactly the rows that were inserted  *)
(* from e, and leaves a row that a call from e has only hit.               *)
C25_AttributionFixed ==
    [][AnyCall
         => /\ \A r \in db.triples : \A s \in db'.triples :
                  s.id = r.id
                     => /\ s.source_exchange_id = r.source_exchange_id
                        /\ s.source_date = r.source_date
                        /\ [s EXCEPT !.confidence = r.confidence,
                                     !.updated_at = r.updated_at] = r
            /\ call'.op \in {"addTriple", "writeExchange"}
                  => /\ \A r \in db.triples : \E s \in db'.triples : s.id = r.id
                     /\ \A s \in db'.triples :
                           (\A r \in db.triples : r.id # s.id)
                              => /\ s.source_exchange_id =
                                      OrElse(call'.args.sourceExchangeId, NULL)
                                 /\ s.source_date = Today(now)
            /\ call'.op = "deleteTriplesByExchange"
                  => \A r \in db.triples :
                        r \in db'.triples <=> r.source_exchange_id # call'.args
                                                 \/ call'.args = NULL]_vars

\* a row inserted from E1 has been hit from E2, which raised its confidence,
\* and deleting E2 has removed nothing
C25_Witness ==
    /\ call.op = "deleteTriplesByExchange" /\ call.args = "E2" /\ call.ret = 0
    /\ \E r \in db.triples : r.source_exchange_id = "E1" /\ r.confidence = 9

-----------------------------------------------------------------------------
\* the entry of an agent on the bus, if it has one
EntryOf(bus, id) == IF id \in DOMAIN bus THEN Some(bus[id]) ELSE None

(* C26: before_agent_start leaves the lastResults entry of every agent     *)
(* other than its own as it was; it replaces the entry of its own agent    *)
(* (an absent id being "main") by the exchanges and entities of its search *)
(* and the time when there is a user message, the stripped query has at    *)
(* least 5 characters and the search returns at least one exchange; in     *)
(* every other run the entry of its agent stays as it was.                 *)
C26_BusFrame ==
    [][HookStep("before_agent_start")
         => LET id == OrElse(call'.args.agentId, "main")
                event == call'.args.event
                results == search(StoreOf(files, id), Searcher(RetrievalConfig),
                                  event.extracted, event.gazetteered, id, None)
            IN /\ DOMAIN lastResults' \subseteq DOMAIN lastResults \cup {id}
               /\ \A other \in DOMAIN lastResults \ {id} :
                     EntryOf(lastResults', other) = EntryOf(lastResults, other)
               /\ IF /\ event.hasUserMessage
                     /\ event.stripped >= 5
                     /\ Len(results.exchanges) > 0
                  THEN EntryOf(lastResults', id) =
                          Some([exchanges |-> results.exchanges,
                                entities |-> results.entities, timestamp |-> now])
                  ELSE EntryOf(lastResults', id) = EntryOf(lastResults, id)]_vars

\* a run with a query of 4 characters has left the entry that an earlier run
\* of the same agent wrote
C26_Witness ==
    /\ call.op = "before_agent_start"
    /\ call.args.event.hasUserMessage /\ call.args.event.stripped = 4
    /\ LET entry == EntryOf(lastResults, OrElse(call.args.agentId, "main"))
       IN entry # None /\ Len(entry[1].exchanges) > 0

-----------------------------------------------------------------------------
(* C27: a call of search, getEntityContext, getTriplesFor,                 *)
(* getCooccurrences, queryTriples, getStats, getEntity or getEntityByName  *)
(* leaves the entities, the triples and the co-occurrence table as they    *)
(* were, whatever the store holds.                                         *)
C27_ReadsLeaveTables ==
    [][AnyCall /\ call'.op \in ReadOps
         => /\ db'.entities = db.entities
            /\ db'.triples = db.triples
            /\ db'.cooccurrences = db.cooccurrences]_vars

\* getEntityContext has returned the context of a registered entity that has
\* triples and pair rows
C27_Witness ==
    /\ steps = 3 /\ call.op = "getEntityContext"
    /\ call.ret # None /\ call.ret[1].tripleCount > 0
    /\ Len(call.ret[1].cooccurrences) > 0
    /\ db.triples # {} /\ db.entities # {} /\ db.cooccurrences # {}

====
